---- MODULE Spec2Model ----
(***************************************************************************)
(* Saha: callable dispatch, argument validation and the symbol table with  *)
(* its instance store (saha/lib), as state machines.                        *)
(*                                                                          *)
(*   SpecValidate  the pure function validate_args applied to bounded      *)
(*                 parameter definitions and call-site argument maps       *)
(*   Spec          symbol-table population, create_object_instance and     *)
(*                 SahaCallable::call for core and user functions          *)
(***************************************************************************)
EXTENDS Integers, FiniteSets, Sequences, TLC

\* ------------------------------------------------------------------ bounds
\* Number of declared-parameter names the validated callables draw from.
NumParamNames == 2
\* Number of distinct payloads per primitive kind.
NumPayloads == 1
\* Number of UUIDs get_new_uuid_bytes hands out before the model stops minting.
MaxUuid == 2
\* Deepest nesting of calls on one thread.
MaxDepth == 2
\* Number of calls one thread starts.
MaxCalls == 3
\* Number of operands of the longest generated expression.
MaxOperands == 4
\* Number of tokens of the longest arbitrary slice, its Eob not counted.
MaxTokens == 3
\* Number of statements of the longest generated body.
MaxStatements == 2
\* Number of `elseif` clauses of the longest generated `if`.
MaxElifs == 2
\* Number of arguments of the longest generated argument list.
MaxArgs == 3
\* Deepest nesting of `<...>` in the generated types.
MaxTypeDepth == 2

\* ------------------------------------------------------------- type model
\* SahaType: primitive tags, Obj, and Name(n, [T..]).  One record shape for
\* every variant so that structural equality is record equality.
Prim(t) == [tag |-> t, name |-> "", targs |-> <<>>]
T_Str == Prim("Str")
T_Int == Prim("Int")
T_Void == Prim("Void")
T_Obj == Prim("Obj")
NameT(n) == [tag |-> "Name", name |-> n, targs |-> <<>>]

\* Value: {kind, payload}.  For Obj the payload is the InstRef.
Val(k, p) == [kind |-> k, v |-> p]
VoidValue == Val(T_Void, 0)
ObjValue(ref) == Val(T_Obj, ref)

Payloads == 1..NumPayloads
AllParamNames == <<"x", "y", "z", "w">>
ParamNames == {AllParamNames[i] : i \in 1..NumParamNames}
ParamTypes == {T_Int, T_Str}

\* Option<FilePosition> of the call site.
Positions == {"none", "p1"}

\* FunctionParameter {name, param_type, default}; default.kind = Void means
\* "no default".
ParamChoices ==
    UNION {{[param_type |-> t, default |-> d] :
               d \in {VoidValue} \cup {Val(t, p) : p \in Payloads}} : t \in ParamTypes}
FunctionParameter(n, c) ==
    [name |-> n, param_type |-> c.param_type, default |-> c.default]
\* SahaFunctionParamDefs: HashMap<String, FunctionParameter>
SahaFunctionParamDefs ==
    UNION {{[n \in S |-> FunctionParameter(n, c[n])] : c \in [S -> ParamChoices]} :
              S \in SUBSET ParamNames}

\* SahaFunctionArguments: HashMap<String, Value>; "" is the positional name.
ArgValues == {Val(t, p) : t \in ParamTypes, p \in Payloads}
ArgChoices(n) == IF n = "self" THEN {ObjValue(1)} ELSE ArgValues
SahaFunctionArguments ==
    UNION {{a \in [S -> ArgValues \cup {ObjValue(1)}] : \A n \in S : a[n] \in ArgChoices(n)} :
              S \in SUBSET ({"", "self"} \cup ParamNames)}

Without(f, k) == [n \in DOMAIN f \ {k} |-> f[n]]
With(f, k, v) == [n \in DOMAIN f \cup {k} |-> IF n = k THEN v ELSE f[n]]

\* ----------------------------------------------------------------- results
NoResult == [tag |-> "None"]
Ok(x) == [tag |-> "Ok", val |-> x]
\* RuntimeError::new(message, pos); the message is kept as its kind plus the
\* values formatted into it.
RuntimeError(kind, subject, expected, found, pos) ==
    [tag |-> "Err", msg |-> kind, subject |-> subject, expected |-> expected,
     found |-> found, pos |-> pos]
\* An unwrap() on None: the thread panics, the call returns nothing.
Panic == [tag |-> "Panic"]

\* `*param_type != *arg`: a SahaType compared with a Value compares the
\* value's kind with the type.
TypeMatchesValue(param_type, arg) == param_type = arg.kind

\* ------------------------------------------------- argument validation
\* validate_single_param_args without lines 400-403: the positional entry is
\* validated but left under its "" key.
validate_single_param_args_unrenamed(params, args, call_pos) ==
    LET validation_args == IF "self" \in DOMAIN args THEN Without(args, "self") ELSE args
    IN  IF DOMAIN params = {} THEN {Panic}
        ELSE UNION {
           LET param == params[param_name]
           IN  IF param.default.kind = T_Void /\ DOMAIN validation_args = {}
               THEN {RuntimeError("missing", param_name, T_Void, T_Void, call_pos)}
               ELSE IF DOMAIN validation_args = {} THEN {Panic}
               ELSE {
                  LET arg == validation_args[arg_name]
                  IN  IF ~TypeMatchesValue(param.param_type, arg)
                      THEN RuntimeError("mismatch", param_name, param.param_type, arg.kind, call_pos)
                      ELSE Ok(args)
                  : arg_name \in DOMAIN validation_args }
           : param_name \in DOMAIN params }

\* The outcomes of validate_single_param_args.  keys().nth(0) / values().nth(0)
\* on a HashMap pick an arbitrary entry, so the result is a set of outcomes.
validate_single_param_args(params, args, call_pos) ==
    LET validation_args == IF "self" \in DOMAIN args THEN Without(args, "self") ELSE args
    IN  IF DOMAIN params = {} THEN {Panic}
        ELSE UNION {
           LET param == params[param_name]
           IN  IF param.default.kind = T_Void /\ DOMAIN validation_args = {}
               THEN {RuntimeError("missing", param_name, T_Void, T_Void, call_pos)}
               ELSE IF DOMAIN validation_args = {} THEN {Panic}
               ELSE {
                  LET arg == validation_args[arg_name]
                  IN  IF ~TypeMatchesValue(param.param_type, arg)
                      THEN RuntimeError("mismatch", param_name, param.param_type, arg.kind, call_pos)
                      ELSE IF "" \in DOMAIN validation_args
                           THEN Ok(Without(With(args, param_name, validation_args[""]), ""))
                           ELSE Ok(args)
                  : arg_name \in DOMAIN validation_args }
           : param_name \in DOMAIN params }

\* What the loop body of validate_args does for one declared parameter:
\* NoResult when the parameter passes and the loop continues.
validate_one_param(params, args, call_pos, name) ==
    IF name \notin DOMAIN args
    THEN IF params[name].default.kind = T_Void
         THEN RuntimeError("missing", name, T_Void, T_Void, call_pos)
         ELSE Panic
    ELSE IF ~TypeMatchesValue(params[name].param_type, args[name])
         THEN RuntimeError("mismatch", name, params[name].param_type, args[name].kind, call_pos)
         ELSE NoResult

\* The outcomes of validate_args.  The loop visits the parameters in HashMap
\* order and returns at the first one that fails, so any failing parameter
\* can decide the outcome.
validate_args(params, args, call_pos) ==
    IF \/ (Cardinality(DOMAIN args) = 1 /\ "self" \notin DOMAIN args)
       \/ (Cardinality(DOMAIN args) = 2 /\ "self" \in DOMAIN args)
    THEN validate_single_param_args(params, args, call_pos)
    ELSE LET failing == {validate_one_param(params, args, call_pos, n) : n \in DOMAIN params}
                            \ {NoResult}
         IN  IF failing = {} THEN {Ok(args)} ELSE failing

\* ------------------------------------------------------ declarations
\* The callables the modelled program registers: core and user functions
\* named f, taking x'int with or without a default.
DeclaredParams ==
    {[n \in {"x"} |-> FunctionParameter("x", [param_type |-> T_Int, default |-> d])] :
        d \in {VoidValue, Val(T_Int, 1)}}
ReturnTypes == {T_Str, NameT("Bar")}
\* CoreFunction / UserFunction {name, params, return_type}; the variant tells
\* which impl of SahaCallable::call runs.
Callables ==
    {[variant |-> v, name |-> "f", params |-> p, return_type |-> r] :
        v \in {"core", "user"}, p \in DeclaredParams, r \in ReturnTypes}
\* return_type: Option<Box<SahaType>> at the call site, <<>> for None.
ReturnTypeOverrides == {<<>>, <<T_Int>>, <<NameT("Foo")>>}
\* The argument maps of the modelled call sites.
CallArgs == {a \in SahaFunctionArguments : DOMAIN a \subseteq {"", "x"}}

\* Method signatures of the parse table (FunctionDefinition compared by `!=`).
Sig(r) == [params |-> <<>>, return_type |-> r]
\* parse_table.behaviors: behavior Bar declares baz(): int.
Behaviors == [b \in {"Bar"} |-> [name |-> "Bar", methods |-> [m \in {"baz"} |-> Sig(T_Int)]]]
NoMethods == [m \in {} |-> Sig(T_Int)]
\* parse_table.classes: Foo honours Bar, and three classes that break
\* validate_class_implements in its three ways.
ParseTableClasses ==
    [c \in {"Foo", "NoBehavior", "NoMethod", "BadSig"} |->
        CASE c = "Foo" -> [name |-> c, implements |-> <<"Bar">>,
                           methods |-> [m \in {"baz"} |-> Sig(T_Int)]]
          [] c = "NoBehavior" -> [name |-> c, implements |-> <<"Qux">>, methods |-> NoMethods]
          [] c = "NoMethod" -> [name |-> c, implements |-> <<"Bar">>, methods |-> NoMethods]
          [] OTHER -> [name |-> c, implements |-> <<"Bar">>,
                       methods |-> [m \in {"baz"} |-> Sig(T_Str)]]]
\* core_classes: host-provided constructors; a List implements no behavior.
CoreClasses == {"List", "Foo"}
\* Class names create_object_instance is asked for.
ClassNames == {"Foo", "List", "Nope"}

Range(seq) == {seq[i] : i \in DOMAIN seq}

ParseError(kind, class, pos) == [tag |-> "Err", msg |-> kind, subject |-> class, pos |-> pos]

\* validate_class_implements without the `c.methods.contains_key(mname)` test.
validate_class_implements_methods_unchecked(c, beh_defs) ==
    LET undefined == {i \in Range(c.implements) : i \notin DOMAIN beh_defs}
        defined == Range(c.implements) \ undefined
        differing == {i \in defined :
                       \E m \in DOMAIN beh_defs[i].methods \cap DOMAIN c.methods :
                           c.methods[m] # beh_defs[i].methods[m]}
        errs == {ParseError("no behavior defined", c.name, c.name) : i \in undefined}
                \cup {ParseError("mismatching definition", c.name, c.name) : i \in differing}
    IN  IF errs = {} THEN {Ok(c.name)} ELSE errs

\* validate_class_implements(c, beh_defs): the failures it can return, or
\* {Ok} when there is none.  Both loops run in source/HashMap order and return
\* at the first failure.
validate_class_implements(c, beh_defs) ==
    LET undefined == {i \in Range(c.implements) : i \notin DOMAIN beh_defs}
        defined == Range(c.implements) \ undefined
        missing == {i \in defined :
                       \E m \in DOMAIN beh_defs[i].methods : m \notin DOMAIN c.methods}
        differing == {i \in defined :
                       \E m \in DOMAIN beh_defs[i].methods \cap DOMAIN c.methods :
                           c.methods[m] # beh_defs[i].methods[m]}
        errs == {ParseError("no behavior defined", c.name, c.name) : i \in undefined}
                \cup {ParseError("method not found in class", c.name, c.name) : i \in missing}
                \cup {ParseError("mismatching definition", c.name, c.name) : i \in differing}
    IN  IF errs = {} THEN {Ok(c.name)} ELSE errs

\* ClassDefinition {fqname, implements} as populate_classes builds it.
ClassDefinition(c) == [fqname |-> c.name, implements |-> c.implements]
\* UserFunction built by generate_class_methods for method m of class c.
MethodCallable(c, m) ==
    [variant |-> "user", name |-> m, params |-> <<>>, return_type |-> c.methods[m].return_type]

\* The object a constructor builds: its class's fully qualified name and
\* implements list.
NewInstance(fqname, implements) == [fqname |-> fqname, implements |-> implements]
get_implements(inst) == Range(inst.implements)
get_fully_qualified_class_name(inst) == inst.fqname
get_named_type(inst) == NameT(inst.fqname)

\* ================================================================ AstParser
\* A token is modelled by its kind, written as consume_next names it; its file
\* position is its index in the slice.  A Name token is written as its name.
LiteralTokens == {"stringval", "integerval", "floatval", "booleanval"}
AccessTokens == {"->", "::"}
\* The Name tokens of the slices: an ordinary name, a one-letter upper-case
\* name and a class name.
NameTokens == {"name", "T", "List"}
\* discriminant(&token): the variant of a token, as consume_next names it.
discriminant(tok) == IF tok \in NameTokens THEN "name" ELSE tok
\* The kinds parse_primary accepts.
PrimaryTokens == {"(", "[", "{", "new", "-", "!", "name"} \cup LiteralTokens
\* The kinds parse_binop_expression accepts.
BinopTokens == {"+", "-", "*", "/", "&&", "||", "==", ">", "<", ">=", "<="}
\* The kinds parse_type_declaration accepts.
TypeTokens == {"name", "typestring", "typeboolean", "typeinteger", "typefloat"}

\* Token::get_precedence: higher binds tighter, negative for a token that is
\* no binary operator.
get_precedence(tok) ==
    CASE tok \in {"*", "/"} -> 60
      [] tok \in {"+", "-"} -> 50
      [] tok \in {"<", "<=", ">", ">="} -> 40
      [] tok \in {"==", "!="} -> 30
      [] tok = "&&" -> 20
      [] tok = "||" -> 10
      [] OTHER -> -1

\* BinOp::from_token: the kind of the operator, <<>> for Err(()).
from_token(tok) ==
    CASE tok = "+" -> <<"Add">> [] tok = "-" -> <<"Sub">>
      [] tok = "*" -> <<"Mul">> [] tok = "/" -> <<"Div">>
      [] tok = "&&" -> <<"And">> [] tok = "||" -> <<"Or">>
      [] tok = "<" -> <<"Lt">> [] tok = "<=" -> <<"Lte">>
      [] tok = ">" -> <<"Gt">> [] tok = ">=" -> <<"Gte">>
      [] tok = "==" -> <<"Eq">> [] tok = "!=" -> <<"Neq">>
      [] OTHER -> <<>>

\* Identifier {file_position, identifier, type_params}; the identifier is the
\* name of the token at the position.
Identifier(pos, type_params) == [pos |-> pos, type_params |-> type_params]
\* Expression {file_position, kind}.
LiteralValue(pos) == [kind |-> "LiteralValue", pos |-> pos]
IdentPathOf(root, path) ==
    [kind |-> "IdentPath", pos |-> root.pos, root |-> root, path |-> path]
IdentPath(pos, path) == IdentPathOf(Identifier(pos, <<>>), path)
BinOp(kind, pos) == [kind |-> kind, pos |-> pos, is_left_assoc |-> TRUE]
BinaryOperation(lhs, op, rhs) ==
    [kind |-> "BinaryOperation", pos |-> lhs.pos, lhs |-> lhs, op |-> op, rhs |-> rhs]
UnaryOp(kind, pos) == [kind |-> kind, pos |-> pos]
UnaryOperation(op, operand) ==
    [kind |-> "UnaryOperation", pos |-> op.pos, op |-> op, operand |-> operand]
ObjectAccess(lhs, akind, rhs, pos) ==
    [kind |-> "ObjectAccess", pos |-> pos, lhs |-> lhs, akind |-> akind, rhs |-> rhs]
Assignment(ident, value) ==
    [kind |-> "Assignment", pos |-> ident.pos, lhs |-> ident, rhs |-> value]
AccessKind(tok) == IF tok = "->" THEN "Instance" ELSE "Static"
ListDeclaration(pos, list_expr) ==
    [kind |-> "ListDeclaration", pos |-> pos, items |-> list_expr]
DictDeclaration(pos, dict_expr) ==
    [kind |-> "DictDeclaration", pos |-> pos, items |-> dict_expr]
FunctionCall(pos, ident_expr, call_args) ==
    [kind |-> "FunctionCall", pos |-> pos, callee |-> ident_expr, args |-> call_args]
CallableArgs(pos, args) == [kind |-> "CallableArgs", pos |-> pos, args |-> args]
\* CallableArg(Identifier, value): the identifier is "" for a positional one.
CallableArg(pos, is_named_arg, value) ==
    [kind |-> "CallableArg", pos |-> pos, named |-> is_named_arg, value |-> value]
NewInstanceExpression(pos, ident, newup_args, typeparams) ==
    [kind |-> "NewInstance", pos |-> pos, ident |-> ident, args |-> newup_args,
     typeparams |-> typeparams]

\* SahaType as the parser builds it.
PrimitiveType(tok) ==
    CASE tok = "typeboolean" -> [t |-> "Bool"]
      [] tok = "typestring" -> [t |-> "Str"]
      [] tok = "typeinteger" -> [t |-> "Int"]
      [] tok = "typefloat" -> [t |-> "Float"]
TypeParam(c) == [t |-> "TypeParam", c |-> c]
TypeName(n, type_params) == [t |-> "Name", n |-> n, type_params |-> type_params]

\* Block {file_position, statements} and Ast {entrypoint}.
Block(pos, statements) == [pos |-> pos, statements |-> statements]
Ast(entrypoint) == [entrypoint |-> entrypoint]
\* Statement {file_position, kind}; an Option is <<>> or <<x>>.
ExpressionStatement(pos, expr) == [kind |-> "Expression", pos |-> pos, expr |-> expr]
VarDeclaration(pos, identifier, var_type, value) ==
    [kind |-> "VarDeclaration", pos |-> pos, identifier |-> identifier,
     var_type |-> var_type, value |-> value]
If(pos, cond, block, elifs, elseblock) ==
    [kind |-> "If", pos |-> pos, cond |-> cond, block |-> block, elifs |-> elifs,
     elseblock |-> elseblock]
Loop(pos, block) == [kind |-> "Loop", pos |-> pos, block |-> block]
For(pos, kident, vident, iterable_expr, block) ==
    [kind |-> "For", pos |-> pos, kident |-> kident, vident |-> vident,
     iterable |-> iterable_expr, block |-> block]
Return(pos, return_expr) == [kind |-> "Return", pos |-> pos, expr |-> return_expr]
Break(pos) == [kind |-> "Break", pos |-> pos]
Continue(pos) == [kind |-> "Continue", pos |-> pos]

\* PR<T>: Ok with the value and the parser's tokidx, or a ParseError.
Parsed(ast, idx) == [tag |-> "Ok", ast |-> ast, idx |-> idx]
ParseFailure(msg, pos) == [tag |-> "Err", msg |-> msg, pos |-> pos]

\* self.ntok after idx tokens were consumed; "none" past the slice's end.
ntok(toks, idx) == IF idx + 1 <= Len(toks) THEN toks[idx + 1] ELSE "none"
\* self.ntok.unwrap_or(&Token::Eob).get_precedence()
next_precedence(toks, idx) ==
    get_precedence(IF ntok(toks, idx) = "none" THEN "eob" ELSE ntok(toks, idx))

\* consume_next: the next token must be of one of next_variants.
consume_next(toks, idx, next_variants) ==
    IF idx + 1 > Len(toks)
    THEN ParseFailure("Unexpected end of token stream", idx)
    ELSE IF discriminant(toks[idx + 1]) \notin next_variants
    THEN ParseFailure("Unexpected token", idx + 1)
    ELSE Parsed(<<>>, idx + 1)

RECURSIVE consume_each(_, _, _)
\* consume_next(a)?; consume_next(b)?; ...: one token of each of the variants
\* in turn, the first failure returned.
consume_each(toks, idx, variants) ==
    IF variants = <<>> THEN Parsed(<<>>, idx)
    ELSE IF consume_next(toks, idx, {variants[1]}).tag # "Ok"
    THEN consume_next(toks, idx, {variants[1]})
    ELSE consume_each(toks, idx + 1, Tail(variants))

\* The element of a one-element set.  `Only({F(r) : r \in {e}})` is F applied
\* to the value of e: it names a result that is then used more than once.
Only(S) == CHOOSE r \in S : TRUE

\* validate_paramtype_name: the name is one upper-case letter.
acceptable ==
    {"A", "B", "C", "D", "E", "F", "G", "H", "I", "J", "K", "L", "M",
     "N", "O", "P", "Q", "R", "S", "T", "U", "V", "W", "X", "Y", "Z"}
validate_paramtype_name(name) == name \in acceptable

RECURSIVE type_params_gens_flag_dropped(_, _, _, _)
RECURSIVE type_params_gens(_, _, _, _)
RECURSIVE generic_type(_, _, _)
RECURSIVE parse_type_declaration(_, _, _)
RECURSIVE new_instance_tparams(_, _, _)
RECURSIVE ident_path_items(_, _, _)
RECURSIVE parse_expression(_, _, _)
RECURSIVE parse_assignment_expression(_, _, _)
RECURSIVE parse_parenthesized(_, _)
RECURSIVE parse_name(_, _)
RECURSIVE parse_primary(_, _)
RECURSIVE list_items(_, _, _)
RECURSIVE parse_list_creation_shorthand(_, _)
RECURSIVE dict_value(_, _, _, _)
RECURSIVE dict_items(_, _, _)
RECURSIVE parse_dict_creation_shorthand(_, _)
RECURSIVE parse_generic_object_access(_, _, _)
RECURSIVE binop_rhs(_, _, _)
RECURSIVE parse_binop_operands(_, _, _)
RECURSIVE parse_binop_expression(_, _, _)
RECURSIVE parse_unop_expression_whole_expression(_, _)
RECURSIVE parse_unop_expression(_, _)
RECURSIVE parse_function_call(_, _, _)
RECURSIVE parse_callable_args(_, _, _, _)
RECURSIVE parse_callable_arg(_, _)
RECURSIVE parse_new_instance_expression(_, _)
RECURSIVE parse_block(_, _, _)
RECURSIVE parse_statements(_, _, _)
RECURSIVE parse_statement(_, _)
RECURSIVE parse_variable_declaration_statement(_, _)
RECURSIVE parse_return_statement(_, _)
RECURSIVE if_clause(_, _, _)
RECURSIVE if_elifs_newest_first(_, _, _)
RECURSIVE if_elifs(_, _, _)
RECURSIVE if_else(_, _)
RECURSIVE parse_if_statement(_, _)
RECURSIVE parse_loop_statement(_, _)
RECURSIVE parse_for_statement(_, _)

\* The 'gens loop with the nested types parsed as outside a declaration.
type_params_gens_flag_dropped(toks, idx, parse_param_types, type_params) ==
    Only({
        IF ty.tag # "Ok" THEN ty
        ELSE IF ntok(toks, ty.idx) = "none" THEN Panic
        ELSE IF ntok(toks, ty.idx) = ","
        THEN type_params_gens_flag_dropped(toks, ty.idx + 1, parse_param_types,
                                           Append(type_params, ty.ast))
        ELSE Parsed(Append(type_params, ty.ast), ty.idx)
        : ty \in {parse_type_declaration(toks, idx, FALSE)}})

\* The 'gens loop of parse_type_declaration: the types between `<` and `>`.
type_params_gens(toks, idx, parse_param_types, type_params) ==
    Only({
        IF ty.tag # "Ok" THEN ty
        ELSE IF ntok(toks, ty.idx) = "none" THEN Panic
        ELSE IF ntok(toks, ty.idx) = ","
        THEN type_params_gens(toks, ty.idx + 1, parse_param_types,
                              Append(type_params, ty.ast))
        ELSE Parsed(Append(type_params, ty.ast), ty.idx)
        : ty \in {parse_type_declaration(toks, idx, parse_param_types)}})

\* The Token::OpLt arm of parse_type_declaration: the name is the current
\* token and `<` the next one.
generic_type(toks, idx, parse_param_types) ==
    Only({
        IF type_params.tag # "Ok" THEN type_params
        ELSE IF consume_next(toks, type_params.idx, {">"}).tag # "Ok"
        THEN consume_next(toks, type_params.idx, {">"})
        ELSE Parsed(TypeName(toks[idx], type_params.ast), type_params.idx + 1)
        : type_params \in {type_params_gens(toks, idx + 1, parse_param_types, <<>>)}})

\* parse_type_declaration(parse_param_types).
parse_type_declaration(toks, idx, parse_param_types) ==
    IF consume_next(toks, idx, TypeTokens).tag # "Ok"
    THEN consume_next(toks, idx, TypeTokens)
    ELSE IF discriminant(toks[idx + 1]) # "name"
    THEN Parsed(PrimitiveType(toks[idx + 1]), idx + 1)
    ELSE IF parse_param_types /\ validate_paramtype_name(toks[idx + 1])
    THEN Parsed(TypeParam(toks[idx + 1]), idx + 1)
    ELSE IF ntok(toks, idx + 1) = "none" THEN Panic
    ELSE IF ntok(toks, idx + 1) = "<" THEN generic_type(toks, idx + 1, parse_param_types)
    ELSE Parsed(TypeName(toks[idx + 1], <<>>), idx + 1)

\* The loop of parse_new_instance_type_params.
new_instance_tparams(toks, idx, tparams) ==
    Only({
        IF ty.tag # "Ok" THEN ty
        ELSE IF ntok(toks, ty.idx) = "none" THEN Panic
        ELSE IF ntok(toks, ty.idx) = ">" THEN Parsed(Append(tparams, ty.ast), ty.idx)
        ELSE IF ntok(toks, ty.idx) = ","
        THEN new_instance_tparams(toks, ty.idx + 1, Append(tparams, ty.ast))
        ELSE new_instance_tparams(toks, ty.idx, Append(tparams, ty.ast))
        : ty \in {parse_type_declaration(toks, idx, FALSE)}})

\* parse_new_instance_type_params: `<` is the next token.
parse_new_instance_type_params(toks, idx) ==
    IF consume_next(toks, idx, {"<"}).tag # "Ok" THEN consume_next(toks, idx, {"<"})
    ELSE Only({
            IF tparams.tag # "Ok" THEN tparams
            ELSE IF consume_next(toks, tparams.idx, {">"}).tag # "Ok"
            THEN consume_next(toks, tparams.idx, {">"})
            ELSE Parsed(tparams.ast, tparams.idx + 1)
            : tparams \in {new_instance_tparams(toks, idx + 1, <<>>)}})

\* `if let Token::OpLt(..) = self.ntok.unwrap()`: the type parameters that may
\* follow a name.
typeparams_after_name(toks, idx) ==
    IF ntok(toks, idx) = "none" THEN Panic
    ELSE IF ntok(toks, idx) = "<" THEN parse_new_instance_type_params(toks, idx)
    ELSE Parsed(<<>>, idx)

\* The `while next_is_access_token` loop of parse_ident_path.
ident_path_items(toks, idx, items) ==
    IF ntok(toks, idx) = "none" THEN Panic
    ELSE IF ntok(toks, idx) \notin AccessTokens THEN Parsed(items, idx)
    ELSE IF consume_next(toks, idx + 1, {"name"}).tag # "Ok"
    THEN consume_next(toks, idx + 1, {"name"})
    ELSE Only({
            IF typeparams.tag # "Ok" THEN typeparams
            ELSE ident_path_items(toks, typeparams.idx,
                     Append(items, <<AccessKind(toks[idx + 1]),
                                     Identifier(idx + 2, typeparams.ast)>>))
            : typeparams \in {typeparams_after_name(toks, idx + 2)}})

\* parse_ident_path: the current token is a name; names joined by `->` or `::`
\* follow.
parse_ident_path(toks, idx) ==
    Only({
        IF typeparams.tag # "Ok" THEN typeparams
        ELSE Only({
                IF items.tag # "Ok" THEN items
                ELSE Parsed(IdentPathOf(Identifier(idx, typeparams.ast), items.ast),
                            items.idx)
                : items \in {ident_path_items(toks, typeparams.idx, <<>>)}})
        : typeparams \in {typeparams_after_name(toks, idx)}})

\* parse_expression(minimum_op_precedence) after idx consumed tokens.
parse_expression(toks, idx, minimum_op_precedence) ==
    Only({
        IF expression.tag # "Ok" THEN expression
        ELSE IF ntok(toks, expression.idx) \in AccessTokens
        THEN parse_generic_object_access(toks, expression.idx, expression.ast)
        ELSE IF next_precedence(toks, expression.idx) < minimum_op_precedence
        THEN expression
        ELSE parse_binop_expression(toks, expression.idx, expression.ast)
        : expression \in {parse_primary(toks, idx)}})

\* parse_assignment_expression(identpath): the next token is `=`.
parse_assignment_expression(toks, idx, identpath) ==
    Only({
        IF value_expr.tag # "Ok" THEN value_expr
        ELSE Parsed(Assignment(identpath, value_expr.ast), value_expr.idx)
        : value_expr \in {parse_expression(toks, idx + 1, 0)}})

\* The Token::ParensOpen arm of parse_primary: `(` is the current token.
parse_parenthesized(toks, idx) ==
    Only({
        IF expr.tag # "Ok" THEN expr
        ELSE Only({
                IF close.tag # "Ok" THEN close ELSE Parsed(expr.ast, close.idx)
                : close \in {consume_next(toks, expr.idx, {")"})}})
        : expr \in {parse_expression(toks, idx, 0)}})

\* The Token::Name arm of parse_primary: a name is the current token.
parse_name(toks, idx) ==
    Only({
        IF identpath_expr.tag # "Ok" THEN identpath_expr
        ELSE IF ntok(toks, identpath_expr.idx) = "none" THEN Panic
        ELSE IF ntok(toks, identpath_expr.idx) = "("
        THEN parse_function_call(toks, identpath_expr.idx, identpath_expr.ast)
        ELSE IF ntok(toks, identpath_expr.idx) = "="
        THEN parse_assignment_expression(toks, identpath_expr.idx, identpath_expr.ast)
        ELSE identpath_expr
        : identpath_expr \in {parse_ident_path(toks, idx)}})

\* parse_primary.
parse_primary(toks, idx) ==
    Only({
        IF consumed.tag # "Ok" THEN consumed
        ELSE IF toks[consumed.idx] = "(" THEN parse_parenthesized(toks, consumed.idx)
        ELSE IF toks[consumed.idx] = "["
        THEN parse_list_creation_shorthand(toks, consumed.idx)
        ELSE IF toks[consumed.idx] = "{"
        THEN parse_dict_creation_shorthand(toks, consumed.idx)
        ELSE IF toks[consumed.idx] \in {"!", "-"}
        THEN parse_unop_expression(toks, consumed.idx)
        ELSE IF toks[consumed.idx] \in LiteralTokens
        THEN Parsed(LiteralValue(consumed.idx), consumed.idx)
        ELSE IF toks[consumed.idx] = "new"
        THEN parse_new_instance_expression(toks, consumed.idx)
        ELSE parse_name(toks, consumed.idx)
        : consumed \in {consume_next(toks, idx, PrimaryTokens)}})

\* The loop of parse_list_creation_shorthand, with the items pushed so far.
list_items(toks, idx, list_expr) ==
    Only({
        IF item.tag # "Ok" THEN item
        ELSE IF ntok(toks, item.idx) = "none" THEN Panic
        ELSE IF ntok(toks, item.idx) = ","
        THEN list_items(toks, item.idx + 1, Append(list_expr, item.ast))
        ELSE IF ntok(toks, item.idx) = "]"
        THEN Parsed(Append(list_expr, item.ast), item.idx)
        ELSE list_items(toks, item.idx, Append(list_expr, item.ast))
        : item \in {parse_expression(toks, idx, 0)}})

\* parse_list_creation_shorthand: `[` is the current token.
parse_list_creation_shorthand(toks, idx) ==
    Only({
        IF list_expr.tag # "Ok" THEN list_expr
        ELSE IF consume_next(toks, list_expr.idx, {"]"}).tag # "Ok"
        THEN consume_next(toks, list_expr.idx, {"]"})
        ELSE Parsed(ListDeclaration(idx, list_expr.ast), list_expr.idx + 1)
        : list_expr \in {list_items(toks, idx, <<>>)}})

\* The loop of parse_dict_creation_shorthand after `key :`.
dict_value(toks, idx, dict_expr, key) ==
    Only({
        IF value.tag # "Ok" THEN value
        ELSE IF ntok(toks, value.idx) = "none" THEN Panic
        ELSE IF ntok(toks, value.idx) = ","
        THEN dict_items(toks, value.idx + 1, Append(dict_expr, <<key, value.ast>>))
        ELSE IF ntok(toks, value.idx) = "}"
        THEN Parsed(Append(dict_expr, <<key, value.ast>>), value.idx)
        ELSE dict_items(toks, value.idx, Append(dict_expr, <<key, value.ast>>))
        : value \in {parse_expression(toks, idx, 0)}})

\* The loop of parse_dict_creation_shorthand, with the pairs pushed so far.
dict_items(toks, idx, dict_expr) ==
    Only({
        IF key.tag # "Ok" THEN key
        ELSE IF consume_next(toks, key.idx, {":"}).tag # "Ok"
        THEN consume_next(toks, key.idx, {":"})
        ELSE dict_value(toks, key.idx + 1, dict_expr, key.ast)
        : key \in {parse_expression(toks, idx, 0)}})

\* parse_dict_creation_shorthand: `{` is the current token.
parse_dict_creation_shorthand(toks, idx) ==
    Only({
        IF dict_expr.tag # "Ok" THEN dict_expr
        ELSE IF consume_next(toks, dict_expr.idx, {"}"}).tag # "Ok"
        THEN consume_next(toks, dict_expr.idx, {"}"})
        ELSE Parsed(DictDeclaration(idx, dict_expr.ast), dict_expr.idx + 1)
        : dict_expr \in {dict_items(toks, idx, <<>>)}})

\* parse_generic_object_access(lhs_expr).
parse_generic_object_access(toks, idx, lhs_expr) ==
    Only({
        IF consumed.tag # "Ok" THEN consumed
        ELSE Only({
                IF rhs_expr.tag # "Ok" THEN rhs_expr
                ELSE Parsed(ObjectAccess(lhs_expr, AccessKind(toks[consumed.idx]),
                                         rhs_expr.ast, consumed.idx),
                            rhs_expr.idx)
                : rhs_expr \in {parse_expression(toks, consumed.idx, 0)}})
        : consumed \in {consume_next(toks, idx, AccessTokens)}})

\* The `while next_precedence >= op_token.get_precedence() && binop.is_left_assoc`
\* loop of parse_binop_expression.
binop_rhs(toks, rhs_expression, op_precedence) ==
    IF rhs_expression.tag # "Ok" THEN rhs_expression
    ELSE IF next_precedence(toks, rhs_expression.idx) >= op_precedence
    THEN Only({
            binop_rhs(toks, deeper, op_precedence)
            : deeper \in {parse_binop_expression(toks, rhs_expression.idx,
                                                 rhs_expression.ast)}})
    ELSE rhs_expression

\* parse_binop_expression once the operator, the token at idx, is consumed.
parse_binop_operands(toks, idx, lhs_expr) ==
    Only({
        IF rhs_expression.tag # "Ok" THEN rhs_expression
        ELSE IF next_precedence(toks, rhs_expression.idx) < 0
        THEN Parsed(BinaryOperation(lhs_expr, BinOp(from_token(toks[idx])[1], idx),
                                    rhs_expression.ast),
                    rhs_expression.idx)
        ELSE parse_binop_expression(toks, rhs_expression.idx,
                 BinaryOperation(lhs_expr, BinOp(from_token(toks[idx])[1], idx),
                                 rhs_expression.ast))
        : rhs_expression \in
            {binop_rhs(toks, primary, get_precedence(toks[idx]))
                : primary \in {parse_primary(toks, idx)}}})

\* parse_binop_expression(lhs_expr).
parse_binop_expression(toks, idx, lhs_expr) ==
    Only({
        IF consumed.tag # "Ok" THEN consumed
        ELSE IF from_token(toks[consumed.idx]) = <<>>
        THEN ParseFailure("Could not parse binary operation type", consumed.idx)
        ELSE parse_binop_operands(toks, consumed.idx, lhs_expr)
        : consumed \in {consume_next(toks, idx, BinopTokens)}})

\* parse_unop_expression with a whole expression parsed as the operand.
parse_unop_expression_whole_expression(toks, idx) ==
    Only({
        IF operand.tag # "Ok" THEN operand
        ELSE Parsed(UnaryOperation(UnaryOp(IF toks[idx] = "!" THEN "Not" ELSE "Minus", idx),
                                   operand.ast),
                    operand.idx)
        : operand \in {parse_expression(toks, idx, 0)}})

\* parse_unop_expression: the current token is `!` or `-`.
parse_unop_expression(toks, idx) ==
    Only({
        IF operand.tag # "Ok" THEN operand
        ELSE Parsed(UnaryOperation(UnaryOp(IF toks[idx] = "!" THEN "Not" ELSE "Minus", idx),
                                   operand.ast),
                    operand.idx)
        : operand \in {parse_primary(toks, idx)}})

\* parse_function_call(ident_expr): `(` is the next token.
parse_function_call(toks, idx, ident_expr) ==
    IF consume_next(toks, idx, {"("}).tag # "Ok" THEN consume_next(toks, idx, {"("})
    ELSE Only({
            IF call_args.tag # "Ok" THEN call_args
            ELSE IF consume_next(toks, call_args.idx, {")"}).tag # "Ok"
            THEN consume_next(toks, call_args.idx, {")"})
            ELSE Parsed(FunctionCall(idx + 1, ident_expr,
                                     CallableArgs(idx + 1, call_args.ast)),
                        call_args.idx + 1)
            : call_args \in {parse_callable_args(toks, idx + 1, TRUE, <<>>)}})

\* The loop of parse_callable_args(allow_unnamed_single_param), with the
\* arguments pushed so far.
parse_callable_args(toks, idx, allow_unnamed_single_param, args) ==
    IF ntok(toks, idx) = "none" THEN Panic
    ELSE IF ntok(toks, idx) = ")" THEN Parsed(args, idx)
    ELSE IF ntok(toks, idx) = ","
    THEN parse_callable_args(toks, idx + 1, allow_unnamed_single_param, args)
    ELSE Only({
            IF arg.tag # "Ok" THEN arg
            ELSE IF allow_unnamed_single_param /\ ~arg.ast.named
            THEN Parsed(Append(args, arg.ast), arg.idx)
            ELSE parse_callable_args(toks, arg.idx, allow_unnamed_single_param,
                                     Append(args, arg.ast))
            : arg \in {parse_callable_arg(toks, idx)}})

\* self.shadow[self.tokidx + 2]: the lookahead one token too far.
assign_pos_token_one_further(toks, idx) ==
    IF idx + 3 <= Len(toks) THEN toks[idx + 3] ELSE "out of bounds"

\* self.shadow[self.tokidx + 1]: the token after the next one; indexing past
\* the end of the slice panics.
assign_pos_token(toks, idx) ==
    IF idx + 2 <= Len(toks) THEN toks[idx + 2] ELSE "out of bounds"

\* parse_callable_arg: a named argument `name = value` or a value.
parse_callable_arg(toks, idx) ==
    IF ntok(toks, idx) = "none" THEN Panic
    ELSE IF discriminant(ntok(toks, idx)) = "name"
            /\ assign_pos_token(toks, idx) = "out of bounds"
    THEN Panic
    ELSE IF discriminant(ntok(toks, idx)) = "name" /\ assign_pos_token(toks, idx) = "="
    THEN Only({
            IF argvalexpr.tag # "Ok" THEN argvalexpr
            ELSE Parsed(CallableArg(idx + 1, TRUE, argvalexpr.ast), argvalexpr.idx)
            : argvalexpr \in {parse_expression(toks, idx + 2, 0)}})
    ELSE Only({
            IF argvalexpr.tag # "Ok" THEN argvalexpr
            ELSE Parsed(CallableArg(idx + 1, FALSE, argvalexpr.ast), argvalexpr.idx)
            : argvalexpr \in {parse_expression(toks, idx, 0)}})

\* parse_new_instance_expression once the class name, the token at idx, is
\* consumed: type parameters, `(`, arguments, `)`.
new_instance_args(toks, idx, typeparams) ==
    IF typeparams.tag # "Ok" THEN typeparams
    ELSE IF consume_next(toks, typeparams.idx, {"("}).tag # "Ok"
    THEN consume_next(toks, typeparams.idx, {"("})
    ELSE Only({
            IF newup_args.tag # "Ok" THEN newup_args
            ELSE IF consume_next(toks, newup_args.idx, {")"}).tag # "Ok"
            THEN consume_next(toks, newup_args.idx, {")"})
            ELSE Parsed(NewInstanceExpression(idx - 1, Identifier(idx, <<>>),
                            CallableArgs(typeparams.idx + 1, newup_args.ast),
                            typeparams.ast),
                        newup_args.idx + 1)
            : newup_args \in {parse_callable_args(toks, typeparams.idx + 1, FALSE, <<>>)}})

\* parse_new_instance_expression: `new` is the current token.
parse_new_instance_expression(toks, idx) ==
    IF consume_next(toks, idx, {"name"}).tag # "Ok" THEN consume_next(toks, idx, {"name"})
    ELSE Only({
            new_instance_args(toks, idx + 1, typeparams)
            : typeparams \in {typeparams_after_name(toks, idx + 1)}})

\* The first tokens of the statements parse_statements closes with a `;`.
EosStatementTokens == {"name", "var", "continue", "break", "return", "("}

\* parse_block(is_root): the statements, between `{` and `}` unless at the
\* root of a body.
parse_block(toks, idx, is_root) ==
    IF is_root
    THEN Only({
            IF statements.tag # "Ok" THEN statements
            ELSE Parsed(Block(idx + 1, statements.ast), statements.idx)
            : statements \in {parse_statements(toks, idx, <<>>)}})
    ELSE IF consume_next(toks, idx, {"{"}).tag # "Ok" THEN consume_next(toks, idx, {"{"})
    ELSE Only({
            IF statements.tag # "Ok" THEN statements
            ELSE IF consume_next(toks, statements.idx, {"}"}).tag # "Ok"
            THEN consume_next(toks, statements.idx, {"}"})
            ELSE Parsed(Block(idx + 1, statements.ast), statements.idx + 1)
            : statements \in {parse_statements(toks, idx + 1, <<>>)}})

\* parse_statements: the loop, with the statements pushed so far.
parse_statements(toks, idx, statements) ==
    IF ntok(toks, idx) = "none" THEN Panic
    ELSE IF ntok(toks, idx) \in {"eob", "}"} THEN Parsed(statements, idx)
    ELSE Only({
            IF statement.tag # "Ok" THEN statement
            ELSE Only({
                    IF eos.tag # "Ok" THEN eos
                    ELSE parse_statements(toks, eos.idx, Append(statements, statement.ast))
                    : eos \in {IF discriminant(ntok(toks, idx)) \in EosStatementTokens
                               THEN consume_next(toks, statement.idx, {";"})
                               ELSE Parsed(<<>>, statement.idx)}})
            : statement \in {parse_statement(toks, idx)}})

\* parse_break_statement: `break` is the next token.
parse_break_statement(toks, idx) == Parsed(Break(idx + 1), idx + 1)
\* parse_continue_statement: `continue` is the next token.
parse_continue_statement(toks, idx) == Parsed(Continue(idx + 1), idx + 1)

\* The `match self.ntok.unwrap()` of parse_statements that parses one
\* statement; the next token is neither Eob nor `}`.
parse_statement(toks, idx) ==
    CASE ntok(toks, idx) = "var" -> parse_variable_declaration_statement(toks, idx)
      [] ntok(toks, idx) = "if" -> parse_if_statement(toks, idx)
      [] ntok(toks, idx) = "loop" -> parse_loop_statement(toks, idx)
      [] ntok(toks, idx) = "for" -> parse_for_statement(toks, idx)
      [] ntok(toks, idx) = "return" -> parse_return_statement(toks, idx)
      [] ntok(toks, idx) = "break" -> parse_break_statement(toks, idx)
      [] ntok(toks, idx) = "continue" -> parse_continue_statement(toks, idx)
      [] OTHER ->
            Only({
                IF expr.tag # "Ok" THEN expr
                ELSE Parsed(ExpressionStatement(idx + 1, expr.ast), expr.idx)
                : expr \in {parse_expression(toks, idx, 0)}})

\* The initializer of a variable declaration parsed and then left out of the
\* statement.
variable_declaration_value_dropped(toks, idx, var_type) ==
    IF var_type.tag # "Ok" THEN var_type
    ELSE IF ntok(toks, var_type.idx) = "none" THEN Panic
    ELSE IF ntok(toks, var_type.idx) = ";"
    THEN Parsed(VarDeclaration(idx + 1, Identifier(idx + 2, <<>>), var_type.ast, <<>>),
                var_type.idx)
    ELSE IF consume_next(toks, var_type.idx, {"="}).tag # "Ok"
    THEN consume_next(toks, var_type.idx, {"="})
    ELSE Only({
            IF value_expr.tag # "Ok" THEN value_expr
            ELSE Parsed(VarDeclaration(idx + 1, Identifier(idx + 2, <<>>), var_type.ast,
                                       <<>>),
                        value_expr.idx)
            : value_expr \in {parse_expression(toks, var_type.idx + 1, 0)}})

\* parse_variable_declaration_statement once `var name '` and the type are
\* consumed: the initializer, if there is one.
variable_declaration_value(toks, idx, var_type) ==
    IF var_type.tag # "Ok" THEN var_type
    ELSE IF ntok(toks, var_type.idx) = "none" THEN Panic
    ELSE IF ntok(toks, var_type.idx) = ";"
    THEN Parsed(VarDeclaration(idx + 1, Identifier(idx + 2, <<>>), var_type.ast, <<>>),
                var_type.idx)
    ELSE IF consume_next(toks, var_type.idx, {"="}).tag # "Ok"
    THEN consume_next(toks, var_type.idx, {"="})
    ELSE Only({
            IF value_expr.tag # "Ok" THEN value_expr
            ELSE Parsed(VarDeclaration(idx + 1, Identifier(idx + 2, <<>>), var_type.ast,
                                       <<value_expr.ast>>),
                        value_expr.idx)
            : value_expr \in {parse_expression(toks, var_type.idx + 1, 0)}})

\* parse_variable_declaration_statement: `var` is the next token.
parse_variable_declaration_statement(toks, idx) ==
    IF consume_each(toks, idx, <<"var", "name", "'">>).tag # "Ok"
    THEN consume_each(toks, idx, <<"var", "name", "'">>)
    ELSE Only({
            variable_declaration_value(toks, idx, var_type)
            : var_type \in {parse_type_declaration(toks, idx + 3, TRUE)}})

\* parse_return_statement: `return` is the next token.  A `;` right after it
\* gives the literal Void, positioned at the `;`.
parse_return_statement(toks, idx) ==
    IF ntok(toks, idx + 1) = "none" THEN Panic
    ELSE IF ntok(toks, idx + 1) = ";"
    THEN Parsed(Return(idx + 1, LiteralValue(idx + 2)), idx + 1)
    ELSE Only({
            IF return_expr.tag # "Ok" THEN return_expr
            ELSE Parsed(Return(idx + 1, return_expr.ast), return_expr.idx)
            : return_expr \in {parse_expression(toks, idx + 1, 0)}})

\* `keyword ( condition ) { block }` of parse_if_statement, for the `if`
\* itself and for each `elseif`: an If with no elifs and no else.
if_clause(toks, idx, keyword) ==
    IF consume_each(toks, idx, <<keyword, "(">>).tag # "Ok"
    THEN consume_each(toks, idx, <<keyword, "(">>)
    ELSE Only({
            IF cond.tag # "Ok" THEN cond
            ELSE IF consume_next(toks, cond.idx, {")"}).tag # "Ok"
            THEN consume_next(toks, cond.idx, {")"})
            ELSE Only({
                    IF block.tag # "Ok" THEN block
                    ELSE Parsed(If(idx + 1, cond.ast, block.ast, <<>>, <<>>), block.idx)
                    : block \in {parse_block(toks, cond.idx + 1, FALSE)}})
            : cond \in {parse_expression(toks, idx + 2, 0)}})

\* The elseif loop of parse_if_statement, each clause put in front of the
\* earlier ones.
if_elifs_newest_first(toks, idx, elifs) ==
    IF ntok(toks, idx) = "none" THEN Panic
    ELSE IF ntok(toks, idx) # "elseif" THEN Parsed(elifs, idx)
    ELSE Only({
            IF elif.tag # "Ok" THEN elif
            ELSE if_elifs_newest_first(toks, elif.idx, <<elif.ast>> \o elifs)
            : elif \in {if_clause(toks, idx, "elseif")}})

\* The `while let Token::KwElseif(..)` loop of parse_if_statement.
if_elifs(toks, idx, elifs) ==
    IF ntok(toks, idx) = "none" THEN Panic
    ELSE IF ntok(toks, idx) # "elseif" THEN Parsed(elifs, idx)
    ELSE Only({
            IF elif.tag # "Ok" THEN elif
            ELSE if_elifs(toks, elif.idx, Append(elifs, elif.ast))
            : elif \in {if_clause(toks, idx, "elseif")}})

\* The `if let Token::KwElse(..)` of parse_if_statement: elseblock.
if_else(toks, idx) ==
    IF ntok(toks, idx) = "none" THEN Panic
    ELSE IF ntok(toks, idx) # "else" THEN Parsed(<<>>, idx)
    ELSE Only({
            IF e.tag # "Ok" THEN e ELSE Parsed(<<e.ast>>, e.idx)
            : e \in {parse_block(toks, idx + 1, FALSE)}})

\* parse_if_statement: `if` is the next token.
parse_if_statement(toks, idx) ==
    Only({
        IF head.tag # "Ok" THEN head
        ELSE Only({
                IF elifs.tag # "Ok" THEN elifs
                ELSE Only({
                        IF elseblock.tag # "Ok" THEN elseblock
                        ELSE Parsed(If(head.ast.pos, head.ast.cond, head.ast.block,
                                       elifs.ast, elseblock.ast),
                                    elseblock.idx)
                        : elseblock \in {if_else(toks, elifs.idx)}})
                : elifs \in {if_elifs(toks, head.idx, <<>>)}})
        : head \in {if_clause(toks, idx, "if")}})

\* parse_loop_statement: `loop` is the next token.
parse_loop_statement(toks, idx) ==
    Only({
        IF loop_block.tag # "Ok" THEN loop_block
        ELSE Parsed(Loop(idx + 1, loop_block.ast), loop_block.idx)
        : loop_block \in {parse_block(toks, idx + 1, FALSE)}})

\* parse_for_statement: `for` is the next token.
parse_for_statement(toks, idx) ==
    IF consume_each(toks, idx, <<"for", "(", "name", ",", "name", "in">>).tag # "Ok"
    THEN consume_each(toks, idx, <<"for", "(", "name", ",", "name", "in">>)
    ELSE Only({
            IF iterable_expr.tag # "Ok" THEN iterable_expr
            ELSE IF consume_next(toks, iterable_expr.idx, {")"}).tag # "Ok"
            THEN consume_next(toks, iterable_expr.idx, {")"})
            ELSE Only({
                    IF for_block.tag # "Ok" THEN for_block
                    ELSE Parsed(For(idx + 1, Identifier(idx + 3, <<>>),
                                    Identifier(idx + 5, <<>>), iterable_expr.ast,
                                    for_block.ast),
                                for_block.idx)
                    : for_block \in {parse_block(toks, iterable_expr.idx + 1, FALSE)}})
            : iterable_expr \in {parse_expression(toks, idx + 6, 0)}})

\* start_parse without the check that the slice holds a token.
start_parse_unpeeked(toks) ==
    Only({
        IF entrypoint.tag # "Ok" THEN entrypoint
        ELSE Parsed(Ast(entrypoint.ast), entrypoint.idx)
        : entrypoint \in {parse_block(toks, 0, TRUE)}})

\* start_parse: parse_block(true), the root block of a body.
start_parse(toks) ==
    IF Len(toks) = 0 THEN ParseFailure("Invalid token stream, no tokens found", 0)
    ELSE Only({
            IF entrypoint.tag # "Ok" THEN entrypoint
            ELSE Parsed(Ast(entrypoint.ast), entrypoint.idx)
            : entrypoint \in {parse_block(toks, 0, TRUE)}})

\* ------------------------------------------------------- parser inputs
\* Operands of the generated expressions: a literal, a name, each also under a
\* unary operator.
Operands == {<<"integerval">>, <<"name">>, <<"-", "integerval">>, <<"!", "name">>}
\* What joins two operands: two binary operators of equal precedence, one of
\* higher precedence, and the instance access.
Joiners == {"+", "-", "*", "->"}

RECURSIVE Interleave(_, _, _, _)
\* operands[i] joiners[i] operands[i+1] ... operands[n]
Interleave(operands, joiners, i, n) ==
    IF i > n THEN <<>>
    ELSE operands[i] \o (IF i < n THEN <<joiners[i]>> ELSE <<>>)
         \o Interleave(operands, joiners, i + 1, n)

\* `(1 + 1 + 2 * 3 - 1);` of test_binops_are_parsed.
TestBinopsTokens ==
    <<"(", "integerval", "+", "integerval", "+", "integerval", "*", "integerval", "-",
      "integerval", ")", ";", "eob">>
\* `(-5 + 2);` of test_unary_ops_are_parsed_properly.
TestUnaryTokens == <<"(", "-", "integerval", "+", "integerval", ")", ";", "eob">>

\* The body `( expression );` followed by Eob, the expression made of n
\* operands and the joiners between them.
ExpressionBody(operands, joiners, n) ==
    <<"(">> \o Interleave(operands, joiners, 1, n) \o <<")", ";", "eob">>

\* ---------------------------------------------------------- body inputs
\* The token kinds the short arbitrary slices are made of.
TokenAlphabet ==
    {"name", "T", "integerval", "(", ")", ",", "=", "<", ">", "[", "]", "{", "}",
     ":", ";", "new", "->", "-", "var", "if", "eob"}

RECURSIVE Concat(_)
\* The concatenation of a sequence of token sequences.
Concat(seqs) == IF Len(seqs) = 0 THEN <<>> ELSE Head(seqs) \o Concat(Tail(seqs))

\* One statement of each kind, each expression statement starting with
\* another token, without the closing `;`.
EosStatementForms ==
    {<<"name">>, <<"integerval">>, <<"new", "name", "(", ")">>,
     <<"[", "integerval", "]">>, <<"{", "integerval", ":", "integerval", "}">>,
     <<"-", "integerval">>, <<"!", "name">>, <<"(", "name", ")">>,
     <<"var", "name", "'", "typestring">>, <<"return">>, <<"return", "name">>,
     <<"break">>, <<"continue">>}
BlockStatementForms ==
    {<<"if", "(", "name", ")", "{", "}">>, <<"loop", "{", "}">>,
     <<"for", "(", "name", ",", "name", "in", "name", ")", "{", "}">>}
StatementForms == EosStatementForms \cup BlockStatementForms
\* A body of n statements, statement i closed by eos[i] (a `;` or nothing).
StatementsBody(forms, eos, n) ==
    Concat([i \in 1..n |-> forms[i] \o eos[i]]) \o <<"eob">>

\* The one-token operands: a literal and a name.
OneTokenOperands == {"integerval", "name"}
\* The twelve binary operator tokens.
AllBinopTokens == BinopTokens \cup {"!="}
\* `( a op b );`
BinopBody(a, op, b) == <<"(", a, op, b, ")", ";", "eob">>

\* `keyword ( cond ) { block }`
Clause(keyword, cond, block) ==
    <<keyword, "(">> \o cond \o <<")", "{">> \o block \o <<"}">>
Conditions == {<<"name">>, <<"integerval">>}
BlockBodies == {<<>>, <<"name", ";">>}
\* An `if` with n `elseif` clauses and the else block elseblock (an Option).
IfBody(conds, blocks, n, elseblock) ==
    Clause("if", conds[1], blocks[1])
    \o Concat([i \in 1..n |-> Clause("elseif", conds[i + 1], blocks[i + 1])])
    \o (IF elseblock = <<>> THEN <<>> ELSE <<"else", "{">> \o elseblock[1] \o <<"}">>)
    \o <<"eob">>

\* The arguments of a call: a positional literal, a named argument and a
\* positional name; what separates two of them is a comma or nothing.
ArgForms == {<<"integerval">>, <<"name", "=", "integerval">>, <<"name">>}
Separators == {<<",">>, <<>>}
\* `name ( args );` and `name = new name ( args );`
CallHeads == {<<"name", "(">>, <<"name", "=", "new", "name", "(">>}
ArgsBody(head, args, seps, n) ==
    head \o Concat([i \in 1..n |-> (IF i > 1 THEN seps[i - 1] ELSE <<>>) \o args[i]])
    \o <<")", ";", "eob">>

RECURSIVE TypeForms(_)
\* The token sequences of the types nested at most depth deep.
TypeForms(depth) ==
    IF depth = 0 THEN {<<"typestring">>, <<"T">>, <<"name">>}
    ELSE TypeForms(depth - 1)
         \cup {<<"List", "<">> \o a \o <<">">> : a \in TypeForms(depth - 1)}
         \cup {<<"List", "<">> \o a \o <<",">> \o b \o <<">">>
                 : a \in TypeForms(depth - 1), b \in TypeForms(0)}
\* What comes before and after a type: a variable declaration without and
\* with an initializer, the type arguments of `new`, of the root of an
\* identifier path and of a later segment of one.
TypeContexts ==
    {<< <<"var", "name", "'">>, <<";", "eob">> >>,
     << <<"var", "name", "'">>, <<"=", "integerval", ";", "eob">> >>,
     << <<"name", "=", "new", "List", "<">>, <<">", "(", ")", ";", "eob">> >>,
     << <<"name", "<">>, <<">", ";", "eob">> >>,
     << <<"name", "->", "name", "<">>, <<">", ";", "eob">> >>}

\* The one-token types that are no type parameter, and the one-token
\* initializers of the generated variable declarations.
SimpleTypes == {"typestring", "typeinteger", "typeboolean", "typefloat", "name"}
OneTokenValues == LiteralTokens \cup {"name"}
\* `var name ' type ;` and `var name ' type = value ;`
VarBody(type, value) ==
    <<"var", "name", "'", type>>
    \o (IF value = <<>> THEN <<>> ELSE <<"=", value[1]>>) \o <<";", "eob">>

\* `var foo'str = "bar";` of test_variable_declarations_are_parsed_correctly.
TestVarTokens == <<"var", "name", "'", "typestring", "=", "stringval", ";", "eob">>

\* ======================================================== state
VARIABLES
    va_pc,          \* validate_args: "ready" before the call, "done" after it
    va_params,      \* validate_args: self (the parameter definitions)
    va_args,        \* validate_args: args
    va_pos,         \* validate_args: call_pos
    va_result,      \* validate_args: what it returned
    phase,          \* "populate" (parse), "run" (interpret), "failed", "aborted"
    functions,      \* SymbolTable.functions: name -> callable
    classes,        \* SymbolTable.classes: name -> ClassDefinition
    methods,        \* SymbolTable.methods: <<class, method>> -> callable
    instances,      \* SymbolTable.instances: InstRef -> object
    uuid_next,      \* the next value Uuid::new_v4 yields (UUIDs never repeat)
    returned,       \* the Values create_object_instance has returned inside Ok
    parse_result,   \* what populate_classes returned last
    call_pc,        \* position of the call in flight: idle, body, check, done
    call_fn,        \* name of the callable being called
    call_override,  \* its return_type argument
    call_pos,       \* its call_source_position argument
    call_validated, \* result of validate_args
    call_ret_type,  \* ret_type
    call_body,      \* result of the host function / evaluator
    call_result,    \* what call returned
    cr_class,       \* create_object_instance: class_name of the last call
    cr_pos,         \* create_object_instance: create_pos of the last call
    cr_result,      \* create_object_instance: what the last call returned
    st_lock,        \* holder of the SAHA_SYMBOL_TABLE mutex
    inst_lock,      \* holder of each stored instance's mutex
    lk_pc,          \* per thread: position of its innermost call
    lk_depth,       \* per thread: calls in flight (nested calls included)
    lk_calls,       \* per thread: calls started so far
    lk_obj,         \* per thread: res.obj of the innermost call
    ast_pc,         \* AstParser: "ready" before start_parse, "done" after it
    ast_tokens,     \* AstParser: the token slice
    ast_result      \* AstParser: what start_parse returned

va_vars == <<va_pc, va_params, va_args, va_pos, va_result>>
st_vars == <<functions, classes, methods, instances, uuid_next, returned, parse_result>>
call_vars == <<call_pc, call_fn, call_override, call_pos, call_validated, call_ret_type,
               call_body, call_result>>
\* The last create_object_instance call observed at its call site.
cr_vars == <<cr_class, cr_pos, cr_result>>
lk_vars == <<st_lock, inst_lock, lk_pc, lk_depth, lk_calls, lk_obj>>
ast_vars == <<ast_pc, ast_tokens, ast_result>>
aux_vars == <<cr_vars, lk_vars, ast_vars>>
vars == <<va_vars, phase, st_vars, call_vars, aux_vars>>

NoFn == ""
NoType == Prim("None")
EmptyMap == <<>>

\* No call in flight.
CallIdle ==
    /\ call_pc = "idle"
    /\ call_fn = NoFn
    /\ call_override = <<>>
    /\ call_pos = "none"
    /\ call_validated = NoResult
    /\ call_ret_type = NoType
    /\ call_body = NoResult
    /\ call_result = NoResult

\* No create_object_instance call observed yet.
CrIdle ==
    /\ cr_class = ""
    /\ cr_pos = "none"
    /\ cr_result = NoResult

\* Threads that call callables; two are enough for every pairwise statement.
Threads == {"t1", "t2"}
NoThread == "free"
\* InstRefs of the instances whose mutexes the calls contend for.
LockRefs == 1..MaxUuid
NoRef == 0

\* No thread has called anything, every mutex is free.
LkIdle ==
    /\ st_lock = NoThread
    /\ inst_lock = [r \in LockRefs |-> NoThread]
    /\ lk_pc = [t \in Threads |-> "idle"]
    /\ lk_depth = [t \in Threads |-> 0]
    /\ lk_calls = [t \in Threads |-> 0]
    /\ lk_obj = [t \in Threads |-> NoRef]

\* No parser constructed.
AstIdle ==
    /\ ast_pc = "off"
    /\ ast_tokens = <<>>
    /\ ast_result = NoResult

AuxIdle == CrIdle /\ LkIdle /\ AstIdle

\* SymbolTable::new(), nothing parsed, nothing called.
InitTable ==
    /\ phase = "populate"
    /\ functions = EmptyMap
    /\ classes = EmptyMap
    /\ methods = EmptyMap
    /\ instances = EmptyMap
    /\ uuid_next = 1
    /\ returned = {}
    /\ parse_result = NoResult
    /\ CallIdle

\* validate_args is a pure function of (self, args, call_pos): every bounded
\* input is an initial state.
InitValidate ==
    /\ va_pc = "ready"
    /\ va_params \in SahaFunctionParamDefs
    /\ va_args \in SahaFunctionArguments
    /\ va_pos \in Positions
    /\ va_result = NoResult
    /\ InitTable
    /\ AuxIdle

\* One application of validate_args to a callable's parameters and a call's
\* arguments.
ValidateArgsCall ==
    /\ va_pc = "ready"
    /\ \E r \in validate_args(va_params, va_args, va_pos) : va_result' = r
    /\ va_pc' = "done"
    /\ UNCHANGED <<aux_vars, va_params, va_args, va_pos, phase, st_vars, call_vars>>

NextValidate == ValidateArgsCall

SpecValidate == InitValidate /\ [][NextValidate]_vars

\* ------------------------------------------------- symbol table: populate
Init ==
    /\ va_pc = "off"
    /\ va_params = EmptyMap
    /\ va_args = EmptyMap
    /\ va_pos = "none"
    /\ va_result = NoResult
    /\ InitTable
    /\ AuxIdle

\* SymbolTable::add_function: HashMap::insert under func.get_name().
add_function(func) ==
    /\ phase = "populate"
    /\ functions' = With(functions, func.name, func)
    /\ UNCHANGED <<aux_vars, va_vars, phase, classes, methods, instances, uuid_next, returned,
                   parse_result, call_vars>>

\* SymbolTable::add_method for every method of class cname.
add_methods(table, cname, c) ==
    [k \in DOMAIN table \cup {<<cname, m>> : m \in DOMAIN c.methods} |->
        IF k[1] = cname /\ k[2] \in DOMAIN c.methods
        THEN MethodCallable(c, k[2]) ELSE table[k]]

\* One iteration of the loop of populate_classes: validate the class, then
\* insert its definition and its methods; a ParseError ends the parse.
populate_class(cname) ==
    /\ phase = "populate"
    /\ LET c == ParseTableClasses[cname]
       IN  \E r \in validate_class_implements(c, Behaviors) :
              /\ parse_result' = r
              /\ IF r.tag = "Ok"
                 THEN /\ classes' = With(classes, cname, ClassDefinition(c))
                      /\ methods' = add_methods(methods, cname, c)
                      /\ phase' = phase
                 ELSE /\ phase' = "failed"
                      /\ UNCHANGED <<classes, methods>>
    /\ UNCHANGED <<aux_vars, va_vars, functions, instances, uuid_next, returned, call_vars>>

\* `parser.start_parse()?` fails on the body of function or method `subject`
\* (populate_functions, generate_class_methods): the loop returns the
\* ParseError before inserting that declaration; what earlier iterations
\* inserted stays in the symbol table.
body_parse_error(subject) ==
    /\ phase = "populate"
    /\ parse_result' = ParseError("body", subject, subject)
    /\ phase' = "failed"
    /\ UNCHANGED <<aux_vars, va_vars, functions, classes, methods, instances, uuid_next,
                   returned, call_vars>>

\* Parsing is over, the interpreter starts.
StartRun ==
    /\ phase = "populate"
    /\ phase' = "run"
    /\ UNCHANGED <<aux_vars, va_vars, st_vars, call_vars>>

\* ------------------------------------------------ symbol table: instances
\* Outcome of a constructor (ClassDefinition::create_new_instance or a
\* CoreConstructorFn): the host decides.
CtorOutcomes == {"ok", "err"}

\* SymbolTable::create_core_object_instance: [result, instances', uuid_next'].
\* The UUID is minted before the class is looked up.
create_core_object_instance(class_name, outcome, create_pos) ==
    LET instref == uuid_next
    IN  IF class_name \notin CoreClasses
        THEN [result |-> RuntimeError("unknown class", class_name, T_Void, T_Void, create_pos),
              instances |-> instances, uuid_next |-> uuid_next + 1]
        ELSE IF outcome = "ok"
        THEN [result |-> Ok(instref),
              instances |-> With(instances, instref, NewInstance(class_name, <<>>)),
              uuid_next |-> uuid_next + 1]
        ELSE [result |-> RuntimeError("constructor", class_name, T_Void, T_Void, create_pos),
              instances |-> instances, uuid_next |-> uuid_next + 1]

\* create_object_instance storing the userland instance before the constructor's
\* result is known (the insert of line 152 moved above the `?` of line 150).
create_object_instance_result_insert_first(class_name, outcome, create_pos) ==
    IF class_name \notin DOMAIN classes
    THEN LET core_inst == create_core_object_instance(class_name, outcome, create_pos)
         IN  IF core_inst.result.tag = "Err"
             THEN core_inst
             ELSE [core_inst EXCEPT !.result = Ok(ObjValue(core_inst.result.val))]
    ELSE LET def == classes[class_name]
             instref == uuid_next
         IN  [result |-> IF outcome = "err"
                         THEN RuntimeError("constructor", class_name, T_Void, T_Void, create_pos)
                         ELSE Ok(ObjValue(instref)),
              instances |-> With(instances, instref, NewInstance(def.fqname, def.implements)),
              uuid_next |-> uuid_next + 1]

\* create_object_instance looking the name up in core_classes before classes.
create_object_instance_result_core_first(class_name, outcome, create_pos) ==
    IF class_name \in CoreClasses \/ class_name \notin DOMAIN classes
    THEN LET core_inst == create_core_object_instance(class_name, outcome, create_pos)
         IN  IF core_inst.result.tag = "Err"
             THEN core_inst
             ELSE [core_inst EXCEPT !.result = Ok(ObjValue(core_inst.result.val))]
    ELSE LET def == classes[class_name]
             instref == uuid_next
         IN  IF outcome = "err"
             THEN [result |-> RuntimeError("constructor", class_name, T_Void, T_Void, create_pos),
                   instances |-> instances, uuid_next |-> uuid_next + 1]
             ELSE [result |-> Ok(ObjValue(instref)),
                   instances |-> With(instances, instref,
                                      NewInstance(def.fqname, def.implements)),
                   uuid_next |-> uuid_next + 1]

\* SymbolTable::create_object_instance: [result, instances', uuid_next'].
create_object_instance_result(class_name, outcome, create_pos) ==
    IF class_name \notin DOMAIN classes
    THEN LET core_inst == create_core_object_instance(class_name, outcome, create_pos)
         IN  IF core_inst.result.tag = "Err"
             THEN core_inst
             ELSE [core_inst EXCEPT !.result = Ok(ObjValue(core_inst.result.val))]
    ELSE LET def == classes[class_name]
             instref == uuid_next
         IN  IF outcome = "err"
             THEN [result |-> RuntimeError("constructor", class_name, T_Void, T_Void, create_pos),
                   instances |-> instances, uuid_next |-> uuid_next + 1]
             ELSE [result |-> Ok(ObjValue(instref)),
                   instances |-> With(instances, instref,
                                      NewInstance(def.fqname, def.implements)),
                   uuid_next |-> uuid_next + 1]

\* A create_object_instance call, made by the program or by a callable's body.
create_object_instance(class_name, outcome, create_pos) ==
    /\ phase = "run"
    /\ call_pc \in {"idle", "body"}
    /\ uuid_next <= MaxUuid
    /\ LET r == create_object_instance_result(class_name, outcome, create_pos)
       IN  /\ instances' = r.instances
           /\ uuid_next' = r.uuid_next
           /\ returned' = IF r.result.tag = "Ok" THEN returned \cup {r.result.val} ELSE returned
    /\ UNCHANGED <<aux_vars, va_vars, phase, functions, classes, methods, parse_result, call_vars>>

\* SymbolTable::create_instref: a fresh InstRef that is not stored.
create_instref ==
    /\ phase = "run"
    /\ call_pc \in {"idle", "body"}
    /\ uuid_next <= MaxUuid
    /\ uuid_next' = uuid_next + 1
    /\ UNCHANGED <<aux_vars, va_vars, phase, functions, classes, methods, instances, returned,
                   parse_result, call_vars>>

\* ------------------------------------------------------- SahaCallable::call
\* ret_type taken from the callable alone, the call-site override ignored.
effective_return_type_declared_only(self, return_type) == self.return_type

\* ret_type: the call-site override if given, else the declared return type.
effective_return_type(self, return_type) ==
    IF Len(return_type) > 0 THEN return_type[1] ELSE self.return_type

ReturnMismatch(self, ret_type, found, pos) ==
    RuntimeError("return type mismatch", self.name, ret_type, found, pos)

\* The `match *res.kind` of CoreFunction::call.
core_return_check(self, ret_type, res, insts, pos) ==
    IF res.kind = T_Obj
    THEN IF ret_type.tag # "Name" THEN ReturnMismatch(self, ret_type, res.kind, pos)
         ELSE IF res.v \notin DOMAIN insts THEN Panic
         ELSE LET wanted_name == ret_type.name
                  inst == insts[res.v]
                  inst_impl == get_implements(inst) \cup {get_fully_qualified_class_name(inst)}
              IN  IF wanted_name \notin inst_impl \/ res.kind # ret_type
                  THEN ReturnMismatch(self, ret_type, res.kind, pos)
                  ELSE Ok(res)
    ELSE IF res.kind # ret_type THEN ReturnMismatch(self, ret_type, res.kind, pos)
         ELSE Ok(res)

\* The `match *res.kind` of UserFunction::call.
user_return_check(self, ret_type, res, insts, pos) ==
    IF res.kind = T_Obj
    THEN IF ret_type.tag # "Name" THEN ReturnMismatch(self, ret_type, res.kind, pos)
         ELSE IF res.v \notin DOMAIN insts THEN Panic
         ELSE LET wanted_name == ret_type.name
                  inst == insts[res.v]
                  inst_impl == get_implements(inst) \cup {get_fully_qualified_class_name(inst)}
                  inst_type == get_named_type(inst)
              IN  IF wanted_name \notin inst_impl \/ ret_type # inst_type
                  THEN ReturnMismatch(self, ret_type, NameT(get_fully_qualified_class_name(inst)), pos)
                  ELSE Ok(res)
    ELSE IF res.kind # ret_type THEN ReturnMismatch(self, ret_type, res.kind, pos)
         ELSE Ok(res)

\* call without the `?` on validate_args: the body runs whatever it returned.
after_validation_unchecked(validated) == "body"

\* Where call goes after validate_args: `?` returns an Err at once.
after_validation(validated) ==
    IF validated.tag = "Ok" THEN "body" ELSE IF validated.tag = "Err" THEN "done" ELSE "panicked"

\* call, first part: validate_args(&args, &call_source_position)? and the
\* choice of ret_type.
CallBegin(fname, args, return_type, pos) ==
    /\ phase = "run"
    /\ call_pc = "idle"
    /\ fname \in DOMAIN functions
    /\ \E validated \in validate_args(functions[fname].params, args, pos) :
          /\ call_validated' = validated
          /\ call_pc' = after_validation(validated)
          /\ call_result' = IF validated.tag = "Err" THEN validated ELSE NoResult
          /\ call_ret_type' = IF validated.tag = "Ok"
                              THEN effective_return_type(functions[fname], return_type)
                              ELSE NoType
          /\ phase' = IF validated.tag = "Panic" THEN "aborted" ELSE phase
    /\ call_fn' = fname
    /\ call_override' = return_type
    /\ call_pos' = pos
    /\ UNCHANGED <<aux_vars, va_vars, st_vars, call_body>>

\* What the host function or the evaluator can return: any value (an Obj
\* value refers to a stored instance) or a RuntimeError of its own.
BodyResults ==
    {Ok(v) : v \in ArgValues \cup {ObjValue(r) : r \in DOMAIN instances}}
    \cup {RuntimeError("body", "", T_Void, T_Void, "body")}

\* call, second part: (self.fn_ref)(validated_args)? / ast_visitor.start()?
BodyReturn(res) ==
    /\ phase = "run"
    /\ call_pc = "body"
    /\ call_body' = res
    /\ call_pc' = IF res.tag = "Ok" THEN "check" ELSE "done"
    /\ call_result' = IF res.tag = "Ok" THEN NoResult ELSE res
    /\ UNCHANGED <<aux_vars, va_vars, phase, st_vars, call_fn, call_override, call_pos, call_validated,
                   call_ret_type>>

\* call, third part: return-type enforcement of the variant called.
return_check(self, ret_type, res, insts, pos) ==
    IF self.variant = "core"
    THEN core_return_check(self, ret_type, res, insts, pos)
    ELSE user_return_check(self, ret_type, res, insts, pos)

ReturnTypeCheck ==
    /\ phase = "run"
    /\ call_pc = "check"
    /\ LET r == return_check(functions[call_fn], call_ret_type, call_body.val, instances, call_pos)
       IN  /\ call_result' = IF r.tag = "Panic" THEN NoResult ELSE r
           /\ call_pc' = IF r.tag = "Panic" THEN "panicked" ELSE "done"
           /\ phase' = IF r.tag = "Panic" THEN "aborted" ELSE phase
    /\ UNCHANGED <<aux_vars, va_vars, st_vars, call_fn, call_override, call_pos, call_validated,
                   call_ret_type, call_body>>

\* The caller has the result; the next call can start.
CallEnd ==
    /\ phase = "run"
    /\ call_pc = "done"
    /\ call_pc' = "idle"
    /\ call_fn' = NoFn
    /\ call_override' = <<>>
    /\ call_pos' = "none"
    /\ call_validated' = NoResult
    /\ call_ret_type' = NoType
    /\ call_body' = NoResult
    /\ call_result' = NoResult
    /\ UNCHANGED <<aux_vars, va_vars, phase, st_vars>>

Next ==
    \/ \E func \in Callables : add_function(func)
    \/ \E cname \in DOMAIN ParseTableClasses : populate_class(cname)
    \/ \E subject \in {"f", "Foo"} : body_parse_error(subject)
    \/ StartRun
    \/ \E class_name \in ClassNames, outcome \in CtorOutcomes, create_pos \in Positions :
          create_object_instance(class_name, outcome, create_pos)
    \/ create_instref
    \/ \E fname \in {"f"}, args \in CallArgs, return_type \in ReturnTypeOverrides,
          pos \in Positions : CallBegin(fname, args, return_type, pos)
    \/ \E res \in BodyResults : BodyReturn(res)
    \/ ReturnTypeCheck
    \/ CallEnd

Spec == Init /\ [][Next]_vars

\* --------------------------------- create_object_instance at its call site
\* A create_object_instance call whose arguments and return value are kept.
CreateCall(class_name, outcome, create_pos) ==
    /\ phase = "run"
    /\ uuid_next <= MaxUuid
    /\ LET r == create_object_instance_result(class_name, outcome, create_pos)
       IN  /\ instances' = r.instances
           /\ uuid_next' = r.uuid_next
           /\ returned' = IF r.result.tag = "Ok" THEN returned \cup {r.result.val} ELSE returned
           /\ cr_result' = r.result
    /\ cr_class' = class_name
    /\ cr_pos' = create_pos
    /\ UNCHANGED <<va_vars, phase, functions, classes, methods, parse_result, call_vars,
                   lk_vars, ast_vars>>

NextCreate ==
    \/ \E func \in Callables : add_function(func)
    \/ \E cname \in DOMAIN ParseTableClasses : populate_class(cname)
    \/ StartRun
    \/ \E class_name \in ClassNames, outcome \in CtorOutcomes, create_pos \in Positions :
          CreateCall(class_name, outcome, create_pos)

SpecCreate == Init /\ [][NextCreate]_vars

\* ------------------------------------------------- calls on several threads
\* Everything but the mutexes and the threads' positions.
non_lk_vars == <<va_vars, phase, st_vars, call_vars, cr_vars, ast_vars>>

\* Holder of the symbol-table mutex once the `st` guard of thread t's block is
\* dropped with its lock never released.
symbol_table_guard_dropped_locked(t) == t

\* Holder of the symbol-table mutex once the `st` guard of thread t's block is
\* dropped at the block's closing brace.
symbol_table_guard_dropped(t) == NoThread

\* Where thread t continues once its innermost call has returned.
caller_pc(t) == IF lk_depth[t] = 1 THEN "idle" ELSE "body"

\* Thread t calls a callable, from the program or from the body of the call it
\* is in; validate_args passes and the body starts.  No mutex is touched.
CallEnter(t) ==
    /\ lk_pc[t] \in {"idle", "body"}
    /\ lk_depth[t] < MaxDepth
    /\ lk_calls[t] < MaxCalls
    /\ lk_pc' = [lk_pc EXCEPT ![t] = "body"]
    /\ lk_depth' = [lk_depth EXCEPT ![t] = @ + 1]
    /\ lk_calls' = [lk_calls EXCEPT ![t] = @ + 1]
    /\ UNCHANGED <<st_lock, inst_lock, lk_obj, non_lk_vars>>

\* The body of thread t's innermost call returns: an object (res.obj = obj)
\* under a Name return type leads to the locked block, anything else does not.
BodyReturns(t, obj) ==
    /\ lk_pc[t] = "body"
    /\ lk_depth[t] > 0
    /\ lk_pc' = [lk_pc EXCEPT ![t] = IF obj = NoRef THEN "checked" ELSE "lock_st"]
    /\ lk_obj' = [lk_obj EXCEPT ![t] = obj]
    /\ UNCHANGED <<st_lock, inst_lock, lk_depth, lk_calls, non_lk_vars>>

\* `let st = crate::SAHA_SYMBOL_TABLE.lock().unwrap();`
LockSymbolTable(t) ==
    /\ lk_pc[t] = "lock_st"
    /\ st_lock = NoThread
    /\ st_lock' = t
    /\ lk_pc' = [lk_pc EXCEPT ![t] = "lock_inst"]
    /\ UNCHANGED <<inst_lock, lk_depth, lk_calls, lk_obj, non_lk_vars>>

\* `let inst_lockable = st.instances.get(..).unwrap();
\*  let inst = inst_lockable.lock().unwrap();`
LockInstance(t) ==
    /\ lk_pc[t] = "lock_inst"
    /\ inst_lock[lk_obj[t]] = NoThread
    /\ inst_lock' = [inst_lock EXCEPT ![lk_obj[t]] = t]
    /\ lk_pc' = [lk_pc EXCEPT ![t] = "read"]
    /\ UNCHANGED <<st_lock, lk_depth, lk_calls, lk_obj, non_lk_vars>>

\* inst.get_implements(), inst.get_fully_qualified_class_name(), ...
ReadInstance(t) ==
    /\ lk_pc[t] = "read"
    /\ lk_pc' = [lk_pc EXCEPT ![t] = "drop_inst"]
    /\ UNCHANGED <<st_lock, inst_lock, lk_depth, lk_calls, lk_obj, non_lk_vars>>

\* End of the block: `inst`, declared last, is dropped first.
DropInstance(t) ==
    /\ lk_pc[t] = "drop_inst"
    /\ inst_lock' = [inst_lock EXCEPT ![lk_obj[t]] = NoThread]
    /\ lk_pc' = [lk_pc EXCEPT ![t] = "drop_st"]
    /\ UNCHANGED <<st_lock, lk_depth, lk_calls, lk_obj, non_lk_vars>>

\* End of the block: `st` is dropped last.
DropSymbolTable(t) ==
    /\ lk_pc[t] = "drop_st"
    /\ st_lock' = symbol_table_guard_dropped(t)
    /\ lk_pc' = [lk_pc EXCEPT ![t] = "checked"]
    /\ UNCHANGED <<inst_lock, lk_depth, lk_calls, lk_obj, non_lk_vars>>

\* The comparison after the block, then `return Ok(res)` or `return Err(err)`.
CallReturn(t) ==
    /\ lk_pc[t] = "checked"
    /\ lk_pc' = [lk_pc EXCEPT ![t] = caller_pc(t)]
    /\ lk_depth' = [lk_depth EXCEPT ![t] = @ - 1]
    /\ lk_obj' = [lk_obj EXCEPT ![t] = NoRef]
    /\ UNCHANGED <<st_lock, inst_lock, lk_calls, non_lk_vars>>

\* What thread t does once a call is in flight.
Progress(t) ==
    \/ \E obj \in LockRefs \cup {NoRef} : BodyReturns(t, obj)
    \/ LockSymbolTable(t)
    \/ LockInstance(t)
    \/ ReadInstance(t)
    \/ DropInstance(t)
    \/ DropSymbolTable(t)
    \/ CallReturn(t)

NextLocks == \E t \in Threads : CallEnter(t) \/ Progress(t)

\* Every thread keeps running; a thread starts finitely many calls.
SpecLocks == Init /\ [][NextLocks]_vars /\ \A t \in Threads : WF_vars(Progress(t))

\* ------------------------------------------------------- parsing one body
\* An AstParser over each bounded token slice, start_parse not yet called.
InitParse ==
    /\ ast_pc = "ready"
    /\ \/ ast_tokens \in {TestBinopsTokens, TestUnaryTokens}
       \/ \E n \in 1..MaxOperands :
             \E o \in [1..n -> Operands], j \in [1..(n - 1) -> Joiners] :
                 ast_tokens = ExpressionBody(o, j, n)
    /\ ast_result = NoResult
    /\ va_pc = "off"
    /\ va_params = EmptyMap
    /\ va_args = EmptyMap
    /\ va_pos = "none"
    /\ va_result = NoResult
    /\ InitTable
    /\ CrIdle
    /\ LkIdle

\* AstParser::start_parse on the slice.
StartParse ==
    /\ ast_pc = "ready"
    /\ ast_result' = start_parse(ast_tokens)
    /\ ast_pc' = "done"
    /\ UNCHANGED <<ast_tokens, va_vars, phase, st_vars, call_vars, cr_vars, lk_vars>>

NextParse == StartParse

SpecParse == InitParse /\ [][NextParse]_vars

\* ------------------------------------------------- parsing a body's statements
\* An AstParser over each bounded body, start_parse not yet called.
InitBody ==
    /\ ast_pc = "ready"
    /\ \/ ast_tokens \in {<<>>, TestVarTokens}
       \/ \E n \in 0..MaxTokens :
             \E body \in [1..n -> TokenAlphabet], last \in {<<>>, <<"eob">>} :
                 ast_tokens = body \o last
       \/ \E n \in 1..MaxStatements :
             \E forms \in [1..n -> StatementForms], eos \in [1..n -> {<<>>, <<";">>}] :
                 ast_tokens = StatementsBody(forms, eos, n)
       \/ \E a \in OneTokenOperands, op \in AllBinopTokens, b \in OneTokenOperands :
             ast_tokens = BinopBody(a, op, b)
       \/ \E n \in 0..MaxElifs :
             \E conds \in [1..(n + 1) -> Conditions], blocks \in [1..(n + 1) -> BlockBodies],
                elseblock \in {<<>>} \cup {<<b>> : b \in BlockBodies} :
                 ast_tokens = IfBody(conds, blocks, n, elseblock)
       \/ \E n \in 0..MaxArgs :
             \E head \in CallHeads, args \in [1..n -> ArgForms],
                seps \in [1..(n - 1) -> Separators] :
                 ast_tokens = ArgsBody(head, args, seps, n)
       \/ \E type \in SimpleTypes, value \in {<<>>} \cup {<<e>> : e \in OneTokenValues} :
             ast_tokens = VarBody(type, value)
       \/ \E context \in TypeContexts, type \in TypeForms(MaxTypeDepth) :
             ast_tokens = context[1] \o type \o context[2]
    /\ ast_result = NoResult
    /\ va_pc = "off"
    /\ va_params = EmptyMap
    /\ va_args = EmptyMap
    /\ va_pos = "none"
    /\ va_result = NoResult
    /\ InitTable
    /\ CrIdle
    /\ LkIdle

NextBody == StartParse

SpecBody == InitBody /\ [][NextBody]_vars

\* ================================================== claims: validate_args
Validated == va_pc = "done"
\* The call form that passes the only declared parameter positionally.
PassedPositionally ==
    Cardinality(DOMAIN va_params) = 1 /\ DOMAIN va_args \ {"self"} = {""}
\* A declared parameter without a default (default.kind = Void) that the call
\* passes neither by name nor positionally.
RequiredMissing(n) ==
    /\ n \in DOMAIN va_params
    /\ va_params[n].default.kind = T_Void
    /\ n \notin DOMAIN va_args
    /\ ~PassedPositionally
\* A declared parameter with a default that the call does not pass.
DefaultedMissing(n) ==
    n \in DOMAIN va_params /\ va_params[n].default.kind # T_Void /\ n \notin DOMAIN va_args
\* An argument passed under the name of a declared parameter of another type.
Mistyped(n) ==
    n \in DOMAIN va_params /\ n \in DOMAIN va_args /\ va_args[n].kind # va_params[n].param_type

\* C1: whenever validate_args returns Ok, the keys of the returned map, apart
\* from `self`, are exactly the declared parameter names.
C1_ValidatedKeysAreParams ==
    (Validated /\ va_result.tag = "Ok") =>
        DOMAIN va_result.val \ {"self"} = DOMAIN va_params

\* The call of C2: one declared parameter, and "" as the only non-self
\* argument, holding a value of the parameter's type.
SinglePositionalCall ==
    /\ PassedPositionally
    /\ \A p \in DOMAIN va_params : va_params[p].param_type = va_args[""].kind

\* C2: for a callable with exactly one declared parameter p and a call whose
\* only non-self argument is the positional one of p's type, validate_args
\* returns Ok, the "" entry renamed to p and any `self` entry kept.
C2_SinglePositionalRenamed ==
    (Validated /\ SinglePositionalCall) =>
        \A p \in DOMAIN va_params :
            /\ va_result.tag = "Ok"
            /\ DOMAIN va_result.val = {p} \cup (DOMAIN va_args \cap {"self"})
            /\ va_result.val[p] = va_args[""]
            /\ "self" \in DOMAIN va_args => va_result.val["self"] = va_args["self"]

C2_Witness ==
    /\ Validated
    /\ SinglePositionalCall
    /\ "self" \in DOMAIN va_args
    /\ va_result.tag = "Ok"
    /\ "" \notin DOMAIN va_result.val

\* C3: if some declared parameter without a default is absent from args,
\* validate_args returns the "argument missing" RuntimeError at the call-site
\* position, and never Ok.
C3_MissingRequiredFails ==
    (Validated /\ \E n \in DOMAIN va_params : RequiredMissing(n)) =>
        /\ va_result.tag = "Err"
        /\ va_result.msg = "missing"
        /\ va_result.pos = va_pos

\* C4: whenever validate_args returns Ok, every argument named like a declared
\* parameter has that parameter's type; an argument of another type for a
\* parameter yields the "Invalid argument" RuntimeError naming a mistyped
\* parameter.
C4_ArgsTypedAsOwnParam ==
    /\ (Validated /\ va_result.tag = "Ok") =>
           \A n \in DOMAIN va_result.val \cap DOMAIN va_params :
               va_result.val[n].kind = va_params[n].param_type
    /\ (Validated /\ (\E n \in DOMAIN va_params : Mistyped(n))
                  /\ ~(\E n \in DOMAIN va_params : RequiredMissing(n))) =>
           /\ va_result.tag = "Err"
           /\ va_result.msg = "mismatch"
           /\ Mistyped(va_result.subject)

\* C5: if a declared parameter is absent from args and its default is not
\* Void, and nothing else is wrong with the call, validate_args returns Ok and
\* the body sees the default under the parameter's name.
C5_DefaultSuppliesMissing ==
    (/\ Validated
     /\ \E n \in DOMAIN va_params : DefaultedMissing(n)
     /\ \A n \in DOMAIN va_params : ~RequiredMissing(n) /\ ~Mistyped(n)
     /\ DOMAIN va_args \subseteq DOMAIN va_params \cup {"self"}) =>
        /\ va_result.tag = "Ok"
        /\ \A n \in DOMAIN va_params :
               DefaultedMissing(n) =>
                   n \in DOMAIN va_result.val /\ va_result.val[n] = va_params[n].default

\* ======================================================= claims: call
CallDone == call_pc = "done"

\* C6: in both variants of call, the body runs only after validate_args
\* returned Ok; when validation fails the body is never invoked and call
\* returns the validation error; an Err of the body is returned unchanged,
\* with no return-type check.
C6_ValidationBeforeBody ==
    /\ call_body # NoResult => call_validated.tag = "Ok"
    /\ call_validated.tag = "Err" =>
           CallDone /\ call_body = NoResult /\ call_result = call_validated
    /\ call_body.tag = "Err" => CallDone /\ call_result = call_body
    /\ call_pc = "check" => call_body.tag = "Ok"

C6_Witness ==
    /\ CallDone
    /\ call_validated.tag = "Err"
    /\ call_result = call_validated
    /\ call_body = NoResult
    /\ functions[call_fn].variant = "user"

\* The return type C7 expects enforced: the call-site override if supplied,
\* the callable's declared return type otherwise.
C7_Expected ==
    IF call_override # <<>> THEN call_override[1] ELSE functions[call_fn].return_type

C7_Enforced ==
    (CallDone /\ call_body.tag = "Ok" /\ call_body.val.kind # T_Obj) =>
        IF call_body.val.kind = C7_Expected
        THEN call_result = Ok(call_body.val)
        ELSE /\ call_result.tag = "Err"
             /\ call_result.msg = "return type mismatch"
             /\ call_result.pos = call_pos

\* C7: when the body returns a value whose kind is not Obj, call returns it
\* iff its kind equals the effective return type (the override if supplied,
\* else the declared type) and the "Return type mismatch" RuntimeError at the
\* call-site position otherwise; no step of the running program changes a
\* registered callable, so the override holds for that call only.
C7_ReturnTypeEnforced ==
    /\ []C7_Enforced
    /\ [][phase = "run" => functions' = functions]_vars

C7_Witness ==
    /\ CallDone
    /\ call_override # <<>>
    /\ call_body.tag = "Ok"
    /\ call_body.val.kind = call_override[1]
    /\ call_body.val.kind # functions[call_fn].return_type
    /\ call_result = Ok(call_body.val)

\* C8: when the effective return type is Name(R, ..) and the body returns an
\* Obj value, call succeeds if R is the instance's class name or one of its
\* implemented behaviors and fails with "Return type mismatch" otherwise; an
\* Obj returned against a non-Name return type always fails.
C8_ObjReturnConformance ==
    (CallDone /\ call_body.tag = "Ok" /\ call_body.val.kind = T_Obj) =>
        LET inst == instances[call_body.val.v]
            names == Range(inst.implements) \cup {inst.fqname}
        IN  IF call_ret_type.tag = "Name" /\ call_ret_type.name \in names
            THEN call_result = Ok(call_body.val)
            ELSE call_result.tag = "Err" /\ call_result.msg = "return type mismatch"

\* ============================================== claims: symbol table
\* C9: add_function never replaces an entry of `functions`: the callable bound
\* to a name stays the first one registered under it.
C9_FirstRegistrationKept ==
    [][\A n \in DOMAIN functions : n \in DOMAIN functions' /\ functions'[n] = functions[n]]_vars

C10_InstancesAreReturned ==
    /\ DOMAIN instances = {v.v : v \in returned}
    /\ \A v \in returned : v.kind = T_Obj

\* C10: the keys of `instances` are exactly the InstRefs create_object_instance
\* returned inside an Ok value, each of kind Obj; a call returning Err adds no
\* entry, and no step removes or replaces an entry.
C10_InstanceStore ==
    /\ []C10_InstancesAreReturned
    /\ [][\A r \in DOMAIN instances :
             r \in DOMAIN instances' /\ instances'[r] = instances[r]]_vars

\* One create succeeded and another minted a UUID without storing anything.
C10_Witness ==
    /\ Cardinality(DOMAIN instances) = 1
    /\ Cardinality(returned) = 1
    /\ uuid_next = 3

\* ================================== claims: create_object_instance lookup
\* A step of SpecCreate is a create_object_instance call iff it mints a UUID.
CreateStep == uuid_next' # uuid_next

\* C11: create_object_instance looks the class name up in `classes` first and
\* in `core_classes` only when `classes` has no such name, so a name known to
\* both builds the userland class; a name known to neither returns the
\* RuntimeError "Cannot create instance of unknown class" at create_pos and
\* changes no map of the symbol table.
C11_UserlandFirst ==
    [][CreateStep =>
        /\ (cr_class' \in DOMAIN classes /\ cr_result'.tag = "Ok"
                => instances' = With(instances, uuid_next,
                                     NewInstance(classes[cr_class'].fqname,
                                                 classes[cr_class'].implements)))
        /\ (cr_class' \in CoreClasses \ DOMAIN classes /\ cr_result'.tag = "Ok"
                => instances' = With(instances, uuid_next, NewInstance(cr_class', <<>>)))
        /\ (cr_class' \notin DOMAIN classes \cup CoreClasses
                => /\ cr_result' = RuntimeError("unknown class", cr_class', T_Void, T_Void,
                                                cr_pos')
                   /\ UNCHANGED <<functions, classes, methods, instances, returned>>)]_vars

\* A class name known to both maps has been instantiated.
C11_Witness ==
    /\ cr_class \in DOMAIN classes \cap CoreClasses
    /\ cr_result.tag = "Ok"
    /\ instances[cr_result.val.v] = NewInstance(classes[cr_class].fqname,
                                                classes[cr_class].implements)
    /\ instances[cr_result.val.v] # NewInstance(cr_class, <<>>)

\* ========================================= claims: behavior implementation
\* The signature under which the symbol table holds method m of class cname.
RegisteredSig(cname, m) ==
    [params |-> methods[<<cname, m>>].params,
     return_type |-> methods[<<cname, m>>].return_type]

\* Class c of the parse table declares behavior b and implements each of its
\* methods under the behavior's signature.
Honours(c, b) ==
    /\ b \in DOMAIN Behaviors
    /\ \A m \in DOMAIN Behaviors[b].methods :
          m \in DOMAIN c.methods /\ c.methods[m] = Behaviors[b].methods[m]

BehaviorErrors == {"no behavior defined", "method not found in class", "mismatching definition"}

\* C12: populate_classes admits only classes that honour their behaviors: for
\* every class in `classes` and every behavior it implements, the behavior is
\* declared and each of its methods is registered for the class under an equal
\* signature; a class with an undeclared behavior, a missing method or a
\* differing signature gets a ParseError at the class's source position and
\* is not inserted.
C12_ClassesHonourBehaviors ==
    /\ \A cname \in DOMAIN classes : \A b \in Range(classes[cname].implements) :
          /\ Honours(ParseTableClasses[cname], b)
          /\ \A m \in DOMAIN Behaviors[b].methods :
                /\ <<cname, m>> \in DOMAIN methods
                /\ RegisteredSig(cname, m) = Behaviors[b].methods[m]
    /\ \A cname \in DOMAIN ParseTableClasses :
          (\E b \in Range(ParseTableClasses[cname].implements) :
                ~Honours(ParseTableClasses[cname], b))
              => cname \notin DOMAIN classes
    /\ (parse_result.tag = "Err" /\ parse_result.msg \in BehaviorErrors)
          => /\ phase = "failed"
             /\ parse_result.subject \notin DOMAIN classes
             /\ parse_result.pos = ParseTableClasses[parse_result.subject].name
             /\ \E b \in Range(ParseTableClasses[parse_result.subject].implements) :
                   ~Honours(ParseTableClasses[parse_result.subject], b)

\* A conforming class has been inserted and a class lacking a behavior method
\* has then been refused.
C12_Witness ==
    /\ "Foo" \in DOMAIN classes
    /\ parse_result.tag = "Err"
    /\ parse_result.msg = "method not found in class"
    /\ parse_result.subject = "NoMethod"

\* ============================================================ claims: locks
HoldsInstanceLock(t) == \E r \in LockRefs : inst_lock[r] = t

\* Thread t is inside its instance-locked section.
InInstanceSection(t) == lk_pc[t] \in {"read", "drop_inst"}

\* C13: a thread acquires an instance lock only while it holds the
\* symbol-table lock and never acquires the symbol-table lock while it holds an
\* instance lock, it releases the instance lock before the symbol-table lock,
\* and it holds the symbol-table lock across the instance lock only until it
\* has the instance handle: what it does under the instance lock, it does
\* without the symbol-table lock.
C13_LockOrder ==
    [][\A t \in Threads :
        /\ (\E r \in LockRefs : inst_lock[r] # t /\ inst_lock'[r] = t) => st_lock = t
        /\ (st_lock # t /\ st_lock' = t) => ~HoldsInstanceLock(t)
        /\ (st_lock = t /\ st_lock' # t) => ~HoldsInstanceLock(t)
        /\ (lk_pc[t] = "read" /\ lk_pc'[t] # "read") => st_lock # t]_vars

\* C14: a call about to inspect one instance is not held up by a call that is
\* inside its instance-locked section on another instance, so that both can be
\* inside their sections at once; two calls are never inside the
\* instance-locked section of the same instance together.
C14_InstanceSectionsIndependent ==
    \A t1 \in Threads : \A t2 \in Threads \ {t1} :
        /\ (InInstanceSection(t1) /\ lk_pc[t2] = "lock_st" /\ lk_obj[t1] # lk_obj[t2])
              => ENABLED LockSymbolTable(t2)
        /\ (InInstanceSection(t1) /\ InInstanceSection(t2)) => lk_obj[t1] # lk_obj[t2]

\* The thread that thread t waits for, if it waits.
WaitsFor(t) ==
    IF lk_pc[t] = "lock_st" /\ st_lock # NoThread THEN {st_lock}
    ELSE IF lk_pc[t] = "lock_inst" /\ inst_lock[lk_obj[t]] # NoThread
    THEN {inst_lock[lk_obj[t]]}
    ELSE {}

\* While a body runs on thread t, t holds no mutex.
NoLockInBody ==
    \A t \in Threads : lk_pc[t] = "body" => st_lock # t /\ ~HoldsInstanceLock(t)

\* No set of threads in which each waits for a member of the set.
NoCyclicWait ==
    \A S \in SUBSET Threads : S # {} => \E t \in S : WaitsFor(t) \cap S = {}

\* C15: call dispatch is deadlock-free: while the body of a call runs, nested
\* calls included, the calling thread holds neither the symbol-table lock nor
\* an instance lock, no set of threads waits on each other in a cycle, and
\* every call that was started returns.
C15_DeadlockFree ==
    /\ [](NoLockInBody /\ NoCyclicWait)
    /\ \A t \in Threads : (lk_depth[t] > 0) ~> (lk_depth[t] = 0)

\* A nested call is inside its locked block while the other thread, itself in
\* a call, waits for the symbol-table lock.
C15_Witness ==
    \E t1 \in Threads : \E t2 \in Threads \ {t1} :
        /\ lk_depth[t1] = MaxDepth
        /\ lk_pc[t1] = "read"
        /\ lk_pc[t2] = "lock_st"
        /\ WaitsFor(t2) = {t1}

\* ======================================================= claims: parse errors
\* C16: when parse_tokens returns a ParseError the artifacts of the partial
\* parse are discarded: the symbol table holds no class, no method and no
\* userland function of the failed parse, as before the call.
C16_FailedParseDiscarded ==
    phase = "failed" =>
        /\ classes = EmptyMap
        /\ methods = EmptyMap
        /\ \A n \in DOMAIN functions : functions[n].variant # "user"

\* ===================================================== claims: expressions
\* start_parse returned an Ast.
ParsedOk == ast_pc = "done" /\ ast_result.tag = "Ok"
\* The expression of the first statement of the parsed body.
ParsedExpression == ast_result.ast.entrypoint.statements[1].expr

RECURSIVE Nodes(_)
\* The expressions an expression is made of, itself included.
Nodes(e) ==
    {e} \cup
    (CASE e.kind \in {"BinaryOperation", "ObjectAccess", "Assignment"} ->
              Nodes(e.lhs) \cup Nodes(e.rhs)
       [] e.kind = "UnaryOperation" -> Nodes(e.operand)
       [] OTHER -> {})

\* Precedence of the operator of a BinaryOperation.
OpPrecedence(op) ==
    get_precedence(CHOOSE tok \in BinopTokens \cup {"!="} : from_token(tok) = <<op.kind>>)

\* The expression a one-token operand (a literal or a name) at index i parses to.
Operand(toks, i) == IF toks[i] = "name" THEN IdentPath(i, <<>>) ELSE LiteralValue(i)
\* The BinaryOperation of the operator token at index i.
Bin(toks, lhs, i, rhs) == BinaryOperation(lhs, BinOp(from_token(toks[i])[1], i), rhs)

\* The slice is `( a op1 b op2 c );` with one-token operands.
ThreeOperands ==
    /\ Len(ast_tokens) = 9
    /\ \A i \in {2, 4, 6} : ast_tokens[i] \in OneTokenOperands
    /\ \A i \in {3, 5} : ast_tokens[i] \in BinopTokens

\* C17: binary operators are left-associative: `a op1 b op2 c` with op1 and op2
\* of equal precedence parses to BinaryOperation(BinaryOperation(a, op1, b),
\* op2, c), and `(1 + 1 + 2 * 3 - 1);` parses to ((1 + 1) + ((2 * 3) - 1)).
C17_LeftAssociative ==
    ast_pc = "done" =>
        /\ (ThreeOperands /\ get_precedence(ast_tokens[3]) = get_precedence(ast_tokens[5]))
              => /\ ast_result.tag = "Ok"
                 /\ ParsedExpression =
                        Bin(ast_tokens,
                            Bin(ast_tokens, Operand(ast_tokens, 2), 3, Operand(ast_tokens, 4)),
                            5, Operand(ast_tokens, 6))
        /\ ast_tokens = TestBinopsTokens
              => /\ ast_result.tag = "Ok"
                 /\ ParsedExpression =
                        Bin(ast_tokens,
                            Bin(ast_tokens, LiteralValue(2), 3, LiteralValue(4)),
                            5,
                            Bin(ast_tokens,
                                Bin(ast_tokens, LiteralValue(6), 7, LiteralValue(8)),
                                9, LiteralValue(10)))

\* C18: the parsed tree respects the precedence order: no BinaryOperation has
\* as a direct operand a BinaryOperation whose operator is of strictly lower
\* precedence (the expressions parsed hold no parentheses of their own).
C18_PrecedenceRespected ==
    ParsedOk =>
        \A e \in Nodes(ParsedExpression) :
            e.kind = "BinaryOperation" =>
                \A operand \in {e.lhs, e.rhs} :
                    operand.kind = "BinaryOperation"
                        => OpPrecedence(operand.op) >= OpPrecedence(e.op)

\* C19: unary `!` and prefix `-` bind tighter than any binary operator: the
\* operand of a UnaryOperation is the one primary that follows the operator (a
\* literal or an identifier path in the expressions parsed), never a
\* BinaryOperation, and `(-5 + 2);` parses to
\* BinaryOperation(UnaryOperation(Minus, 5), Add, 2).
C19_UnaryBindsTightest ==
    ParsedOk =>
        /\ \A e \in Nodes(ParsedExpression) :
              e.kind = "UnaryOperation" =>
                  /\ e.operand.kind \in {"LiteralValue", "IdentPath"}
                  /\ e.operand.pos = e.pos + 1
                  /\ e.op.kind = (IF ast_tokens[e.pos] = "!" THEN "Not" ELSE "Minus")
        /\ ast_tokens = TestUnaryTokens
              => ParsedExpression =
                     Bin(ast_tokens,
                         UnaryOperation(UnaryOp("Minus", 2), LiteralValue(3)),
                         4, LiteralValue(5))

\* `(-5 + 2);` has been parsed.
C19_Witness ==
    /\ ParsedOk
    /\ ast_tokens = TestUnaryTokens
    /\ ParsedExpression.kind = "BinaryOperation"
    /\ ParsedExpression.lhs.kind = "UnaryOperation"

\* The slice is `( e -> m op x );` with e a literal, m a name and x a
\* one-token operand.
AccessThenBinop ==
    /\ Len(ast_tokens) = 9
    /\ ast_tokens[2] \in LiteralTokens
    /\ ast_tokens[3] \in AccessTokens
    /\ ast_tokens[4] = "name"
    /\ ast_tokens[5] \in BinopTokens
    /\ ast_tokens[6] \in OneTokenOperands

\* C20: object access binds tighter than any binary operator: `e -> m op x`
\* with e a primary that is no name parses to the BinaryOperation whose left
\* operand is ObjectAccess(e, m), and no ObjectAccess holds a BinaryOperation
\* in its right-hand side.
C20_AccessBindsTightest ==
    ast_pc = "done" =>
        /\ AccessThenBinop
              => /\ ast_result.tag = "Ok"
                 /\ ParsedExpression =
                        Bin(ast_tokens,
                            ObjectAccess(LiteralValue(2), AccessKind(ast_tokens[3]),
                                         IdentPath(4, <<>>), 3),
                            5, Operand(ast_tokens, 6))
        /\ ast_result.tag = "Ok"
              => \A e \in Nodes(ParsedExpression) :
                     e.kind = "ObjectAccess"
                         => \A inner \in Nodes(e.rhs) : inner.kind # "BinaryOperation"

\* ====================================================== claims: statements
\* The statements of the parsed body's entrypoint.
Statements == ast_result.ast.entrypoint.statements
\* The slice is the one statement form, closed by eos, and Eob.
OneStatement(form, eos) == ast_tokens = form \o eos \o <<"eob">>

\* C21: every `var`, `return`, `break`, `continue`, bare-expression and
\* parenthesized-expression statement must be followed by `;`, consumed as
\* part of the statement, whatever token the expression starts with: a body
\* of one such statement and its `;` parses to that one statement, and the
\* same body without the `;` is a ParseError; `if`, `loop` and `for` take no
\* trailing `;`.
C21_StatementsEndInEos ==
    ast_pc = "done" =>
        /\ \A form \in EosStatementForms :
              /\ OneStatement(form, <<";">>)
                    => /\ ast_result.tag = "Ok"
                       /\ Len(Statements) = 1
                       /\ ast_result.idx = Len(form) + 1
              /\ OneStatement(form, <<>>) => ast_result.tag = "Err"
        /\ \A form \in BlockStatementForms :
              OneStatement(form, <<>>)
                  => /\ ast_result.tag = "Ok"
                     /\ Len(Statements) = 1
                     /\ ast_result.idx = Len(form)

\* C22: each of the twelve binary operator kinds (Add Sub Mul Div Gt Gte Lt
\* Lte Eq Neq And Or) is accepted between two primaries: `(a op b);` parses to
\* the BinaryOperation of a and b whose BinOp has the kind of the operator
\* token and is_left_assoc = TRUE; none of them, `!=` included, produces a
\* ParseError.
C22_AllBinopsAccepted ==
    ast_pc = "done" =>
        \A a \in OneTokenOperands, op \in AllBinopTokens, b \in OneTokenOperands :
            ast_tokens = BinopBody(a, op, b)
                => /\ ast_result.tag = "Ok"
                   /\ ParsedExpression =
                          BinaryOperation(Operand(ast_tokens, 2),
                                          BinOp(from_token(op)[1], 3),
                                          Operand(ast_tokens, 4))
                   /\ ParsedExpression.op.is_left_assoc

\* ============================================================== claims: if
\* The positions of the tokens of one kind, and the i-th of them.
KwPositions(kw) == {p \in 1..Len(ast_tokens) : ast_tokens[p] = kw}
NthPosition(kw, i) ==
    CHOOSE p \in KwPositions(kw) : Cardinality({q \in KwPositions(kw) : q < p}) = i - 1
\* The slice is one `if` with up to MaxElifs `elseif` clauses and maybe an
\* `else`, each condition one token and each block empty or `name;`.
IsIfBody ==
    /\ Len(ast_tokens) >= 7
    /\ ast_tokens[1] = "if"
    /\ \E n \in 0..MaxElifs :
          \E conds \in [1..(n + 1) -> Conditions], blocks \in [1..(n + 1) -> BlockBodies],
             elseblock \in {<<>>} \cup {<<b>> : b \in BlockBodies} :
              ast_tokens = IfBody(conds, blocks, n, elseblock)
\* The clause `keyword ( cond ) { block }` whose keyword is at position p was
\* parsed to the If statement s, which has no elifs and no else of its own.
IsClauseAt(s, p) ==
    /\ s.kind = "If"
    /\ s.pos = p
    /\ s.cond = Operand(ast_tokens, p + 2)
    /\ s.block.pos = p + 4
    /\ Len(s.block.statements) = (IF ast_tokens[p + 5] = "}" THEN 0 ELSE 1)

\* C23: an `if` with n >= 0 `elseif` clauses and an optional `else` parses to
\* one If statement positioned at the `if` keyword; its elifs list has exactly
\* n entries in source order, each an If positioned at its `elseif` keyword
\* with its own condition and block, an empty elifs list and no else; the
\* outer else slot is Some exactly when an `else` block is present.
C23_IfElseifElse ==
    (ast_pc = "done" /\ IsIfBody) =>
        /\ ast_result.tag = "Ok"
        /\ Len(Statements) = 1
        /\ IsClauseAt(Statements[1], 1)
        /\ Len(Statements[1].elifs) = Cardinality(KwPositions("elseif"))
        /\ \A i \in 1..Len(Statements[1].elifs) :
              /\ IsClauseAt(Statements[1].elifs[i], NthPosition("elseif", i))
              /\ Statements[1].elifs[i].elifs = <<>>
              /\ Statements[1].elifs[i].elseblock = <<>>
        /\ (Statements[1].elseblock # <<>>) <=> (KwPositions("else") # {})
        /\ Statements[1].elseblock # <<>>
              => /\ Statements[1].elseblock[1].pos = NthPosition("else", 1) + 1
                 /\ Len(Statements[1].elseblock) = 1

\* `if (..) {..} elseif (..) {..} elseif (..) {..} else {..}` has been parsed.
C23_Witness ==
    /\ ParsedOk
    /\ IsIfBody
    /\ Len(Statements[1].elifs) = 2
    /\ Statements[1].elifs[1].pos < Statements[1].elifs[2].pos
    /\ Statements[1].elseblock # <<>>

\* ======================================================= claims: arguments
\* The argument form is a positional argument.
IsPositional(arg) == arg \in {<<"integerval">>, <<"name">>}
\* The slice starts a call or an assignment of a newup.
StartsCall ==
    /\ Len(ast_tokens) >= 5
    /\ \E head \in CallHeads : SubSeq(ast_tokens, 1, Len(head)) = head

\* C24: the arguments of a call or of `new` are comma-separated: a list in
\* which two consecutive arguments have no comma between them is a
\* ParseError, and in a function call (allow_unnamed_single_param) a
\* positional argument ends the list, so a positional argument followed by
\* further arguments is a ParseError.
C24_ArgsCommaSeparated ==
    (ast_pc = "done" /\ StartsCall) =>
        \A n \in 2..MaxArgs :
            \A head \in CallHeads, args \in [1..n -> ArgForms],
               seps \in [1..(n - 1) -> Separators] :
                ast_tokens = ArgsBody(head, args, seps, n)
                    => /\ (\E i \in 1..(n - 1) : seps[i] = <<>>)
                             => ast_result.tag = "Err"
                       /\ (head = <<"name", "(">>
                             /\ \E i \in 1..(n - 1) : IsPositional(args[i]))
                             => ast_result.tag = "Err"

\* ============================================ claims: variable declarations
\* The slice is `var name ' TYPE` followed by rest.
IsVarBody(type, rest) ==
    ast_tokens = <<"var", "name", "'">> \o type \o rest
\* What parse_type_declaration makes of a one-token type that is no type
\* parameter.
SimpleType(tok) ==
    IF discriminant(tok) # "name" THEN PrimitiveType(tok) ELSE TypeName(tok, <<>>)

\* C25: `var NAME ' TYPE = EXPR ;` parses to exactly one VarDeclaration of the
\* Identifier NAME without type params, TYPE and Some(EXPR), positioned at the
\* `var` keyword; `var NAME ' TYPE ;` parses to VarDeclaration(Identifier,
\* TYPE, None); `var foo'str = "bar";` gives VarDeclaration(foo, Str,
\* Some(LiteralValue)).
C25_VarDeclaration ==
    (ast_pc = "done" /\ Len(ast_tokens) >= 6 /\ ast_tokens[1] = "var") =>
        /\ \A t \in SimpleTypes :
              /\ IsVarBody(<<t>>, <<";", "eob">>)
                    => /\ ast_result.tag = "Ok"
                       /\ Statements =
                              <<VarDeclaration(1, Identifier(2, <<>>), SimpleType(t), <<>>)>>
              /\ \A e \in OneTokenValues :
                    IsVarBody(<<t>>, <<"=", e, ";", "eob">>)
                        => /\ ast_result.tag = "Ok"
                           /\ Statements =
                                  <<VarDeclaration(1, Identifier(2, <<>>), SimpleType(t),
                                                   <<Operand(ast_tokens, 6)>>)>>
        /\ ast_tokens = TestVarTokens
              => /\ ast_result.tag = "Ok"
                 /\ Statements =
                        <<VarDeclaration(1, Identifier(2, <<>>), PrimitiveType("typestring"),
                                         <<LiteralValue(6)>>)>>

\* `var foo'str = "bar";` has been parsed.
C25_Witness ==
    /\ ParsedOk
    /\ ast_tokens = TestVarTokens
    /\ Statements[1].kind = "VarDeclaration"
    /\ Statements[1].value # <<>>

\* ============================================================ claims: types
RECURSIVE Unparse(_)
RECURSIVE UnparseEach(_)
\* The tokens a type is written with: the name, and its arguments between
\* `<` and `>`, separated by commas.
Unparse(type) ==
    CASE type.t = "TypeParam" -> <<type.c>>
      [] type.t = "Name" ->
            IF type.type_params = <<>> THEN <<type.n>>
            ELSE <<type.n, "<">> \o UnparseEach(type.type_params) \o <<">">>
      [] OTHER -> <<CHOOSE tok \in TypeTokens \ {"name"} : PrimitiveType(tok) = type>>
UnparseEach(types) ==
    Unparse(Head(types))
    \o (IF Len(types) = 1 THEN <<>> ELSE <<",">> \o UnparseEach(Tail(types)))

RECURSIVE TypeNodes(_)
\* The types a type is made of, itself included.
TypeNodes(type) ==
    {type} \cup
    (IF type.t = "Name"
     THEN UNION {TypeNodes(type.type_params[i]) : i \in 1..Len(type.type_params)}
     ELSE {})

\* The slice is the context with one of the generated types in it; the
\* tokens of that type.
TypeTokensIn(context) ==
    SubSeq(ast_tokens, Len(context[1]) + 1, Len(ast_tokens) - Len(context[2]))
InContext(context) ==
    /\ Len(ast_tokens) > Len(context[1]) + Len(context[2])
    /\ SubSeq(ast_tokens, 1, Len(context[1])) = context[1]
    /\ SubSeq(ast_tokens, Len(ast_tokens) - Len(context[2]) + 1, Len(ast_tokens))
          = context[2]
    /\ TypeTokensIn(context) \in TypeForms(MaxTypeDepth)
\* The contexts parsed with parse_param_types = true: variable declarations.
IsDeclarationContext(context) == context[1][1] = "var"
\* The types parsed from the slice: the declared type of the variable, or the
\* type arguments of the newup, of the root of the path or of its segment.
ParsedTypes(context) ==
    CASE IsDeclarationContext(context) -> <<Statements[1].var_type>>
      [] "new" \in Range(context[1]) -> Statements[1].expr.rhs.typeparams
      [] "->" \notin Range(context[1]) -> Statements[1].expr.root.type_params
      [] OTHER -> Statements[1].expr.path[1][2].type_params

\* C26: type parsing depends on parse_param_types: in a variable declaration
\* (flag true) a one-upper-case-letter name c resolves to TypeParam(c) at any
\* nesting depth of `<...>`, in the type arguments of `new` and of ident-path
\* segments (flag false) it resolves to Name(c, []) at any depth; any other
\* name n with arguments `<T1,...,Tk>` resolves to Name(n, [T1..Tk]) in source
\* order: the parsed type, written out again, is the source's tokens.
C26_ParamTypesFlag ==
    ast_pc = "done" =>
        \A context \in TypeContexts :
            InContext(context)
                => /\ ast_result.tag = "Ok"
                   /\ Len(ParsedTypes(context)) = 1
                   /\ Unparse(ParsedTypes(context)[1]) = TypeTokensIn(context)
                   /\ \A node \in TypeNodes(ParsedTypes(context)[1]) :
                         IF IsDeclarationContext(context)
                         THEN node.t = "Name" => ~validate_paramtype_name(node.n)
                         ELSE node.t # "TypeParam"

\* `var name'List<List<T>>;` has been parsed, the T two levels deep a
\* TypeParam.
C26_Witness ==
    /\ ParsedOk
    /\ ast_tokens = <<"var", "name", "'", "List", "<", "List", "<", "T", ">", ">", ";", "eob">>
    /\ Statements[1].var_type =
           TypeName("List", <<TypeName("List", <<TypeParam("T")>>)>>)

\* ====================================================== claims: whole body
\* C27: parsing the slice `[Eob]` succeeds and gives an Ast whose entrypoint
\* Block has zero statements; the empty slice (no Eob) is rejected with a
\* ParseError.
C27_EmptyBody ==
    ast_pc = "done" =>
        /\ ast_tokens = <<"eob">>
              => /\ ast_result.tag = "Ok"
                 /\ Statements = <<>>
        /\ ast_tokens = <<>> => ast_result.tag = "Err"

\* `[Eob]` has been parsed.
C27_Witness ==
    /\ ParsedOk
    /\ ast_tokens = <<"eob">>
    /\ Len(Statements) = 0

\* C28 and C29: start_parse on a whole slice.
\* The slice ends with Eob and holds Eob nowhere else.
EobTerminated ==
    /\ Len(ast_tokens) > 0
    /\ ast_tokens[Len(ast_tokens)] = "eob"
    /\ \A i \in 1..(Len(ast_tokens) - 1) : ast_tokens[i] # "eob"
\* What one iteration of a loop returned when started after idx tokens: a
\* result (no panic), and after a success more tokens are consumed than
\* before.
Advances(result, idx) ==
    /\ result.tag \in {"Ok", "Err"}
    /\ result.tag = "Ok" => result.idx > idx /\ result.idx < Len(ast_tokens)

\* C28: for a slice that ends with Eob and holds Eob nowhere else, start_parse
\* returns an Ast or a ParseError; one iteration of the statement, list, dict,
\* argument and type-argument loops, started at any position of the slice,
\* consumes at least one token or fails; the peeked token is never absent when
\* it is inspected and the lookahead `shadow[tokidx + 1]` never reads past the
\* end of the slice (either would be a panic).
C28_ParserTerminates ==
    (ast_pc = "done" /\ EobTerminated) =>
        /\ ast_result.tag \in {"Ok", "Err"}
        /\ ast_result.tag = "Ok" => ast_result.idx < Len(ast_tokens)
        /\ \A idx \in 0..(Len(ast_tokens) - 1) :
              /\ ntok(ast_tokens, idx) \notin {"eob", "}"}
                    => Advances(parse_statement(ast_tokens, idx), idx)
              /\ Advances(parse_expression(ast_tokens, idx, 0), idx)
              /\ ntok(ast_tokens, idx) \notin {")", ","}
                    => Advances(parse_callable_arg(ast_tokens, idx), idx)
              /\ Advances(parse_type_declaration(ast_tokens, idx, TRUE), idx)
              /\ Advances(parse_type_declaration(ast_tokens, idx, FALSE), idx)
              /\ discriminant(ntok(ast_tokens, idx)) = "name"
                    => assign_pos_token(ast_tokens, idx) # "out of bounds"

\* `f(a` and Eob has been parsed: the lookahead of the argument `a` read the
\* last token of the slice, the Eob.
C28_Witness ==
    /\ ast_pc = "done"
    /\ ast_tokens = <<"name", "(", "name", "eob">>
    /\ assign_pos_token(ast_tokens, 2) = "eob"
    /\ ast_result.tag = "Err"

\* C29: start_parse returns Ok only when the whole body has been consumed: on
\* success every token before the terminating Eob belongs to a parsed
\* statement, so a body with leftover tokens is a ParseError.
C29_WholeBodyConsumed ==
    (ast_pc = "done" /\ EobTerminated /\ ast_result.tag = "Ok")
        => ast_result.idx = Len(ast_tokens) - 1

\* =========================================== claims: core and user callables
\* C30: return-type enforcement is the same for both callable variants: for
\* every returned value, effective return type and instance store, the check
\* of CoreFunction::call and the check of UserFunction::call either both
\* accept or both reject the return value.
C30_SameReturnEnforcement ==
    (phase = "run" /\ call_pc = "check") =>
        (core_return_check(functions[call_fn], call_ret_type, call_body.val,
                           instances, call_pos).tag = "Ok")
        <=> (user_return_check(functions[call_fn], call_ret_type, call_body.val,
                               instances, call_pos).tag = "Ok")

====
